---- MODULE Spec2Model ----
(***************************************************************************)
(* Discord <-> Telegram relay (src/main.py, class DiscordTelegramSync).    *)
(*                                                                         *)
(* Platform A is Discord (push events), platform B is Telegram (polling).  *)
(* The model keeps the four mapping dictionaries, the polling offset, and  *)
(* one record per running coroutine.  A coroutine gives up control only at *)
(* an await, so every action below is the code that runs between two       *)
(* awaits of one handler: it consumes the answer of the call the handler   *)
(* was waiting for and runs to the next call (or to the handler's end).    *)
(*                                                                         *)
(* Encodings.                                                              *)
(*   Discord ids are integers; str(id) is StrId(id) = <<"id", id>>.        *)
(*   The timestamp fallback f"webhook_{ts}" is <<"webhook_", ts>>.         *)
(*   Python None / absent integer is 0 (the code tests ids for truth).     *)
(*   A text is the tuple of the pieces the f-string concatenates.          *)
(***************************************************************************)
EXTENDS Integers, Sequences, FiniteSets, TLC

\* ------------------------------------------------------------------ bounds
\* Native Discord messages (ids 1..MaxDiscordMsg); webhook posts get later ids.
MaxDiscordMsg == 2
\* Attachments carried by one Discord message.
MaxAttach == 1
\* Updates the Telegram server produces in one run.
MaxUpdates == 2
\* Discord delete events delivered in one run.
MaxDeleteEvents == 2
\* Distinct readings of the wall clock (datetime.now().timestamp()).
MaxClock == 2
\* Updates of the Telegram server in the specifications of the direct tables
\* and of the insertions.
MaxDirectUpdates == 1
\* Times the process is stopped and started again.
MaxCrashes == 1
\* Ready events of the Discord client after the first one.
MaxReady == 1

\* ------------------------------------------------------------ configuration
discord_channel_id == "channel"
OtherChannel == "other_channel"
telegram_chat_id == "chat"
OtherChat == "other_chat"

\* self.webhook_url, split at "/".
webhook_url == <<"https:", "", "discord.com", "api", "webhooks", "WID", "TOKEN">>

BotUser == [display_name |-> "SyncBot", id |-> "bot"]
Ann == [display_name |-> "Ann", id |-> "u_ann"]
Bob == [display_name |-> "Bob", id |-> "u_bob"]

\* Who wrote native message d, when it is not the bot itself.
AuthorOf(d) == IF d % 2 = 1 THEN Ann ELSE Bob

DIds == 1..MaxDiscordMsg

\* message.content: empty or not.
Contents == {"", "hi"}

\* attachment.content_type, split at the first "/": <<category, subtype>>.
\* <<>> is an absent (None) content type.
NoContentType == <<>>
ContentTypes == {<<"image", "png">>, <<"video", "mp4">>,
                 <<"application", "pdf">>, NoContentType}

\* ------------------------------------------------------------------ helpers
StrId(n) == <<"id", n>>

Put(f, k, v) == [x \in DOMAIN f \cup {k} |-> IF x = k THEN v ELSE f[x]]

Del(f, k) == [x \in DOMAIN f \ {k} |-> f[x]]

EmptyDict == [x \in {} |-> 0]

Max(a, b) == IF a > b THEN a ELSE b

\* String concatenation on texts kept as pieces: a + s.
Cat(a, s) == IF s = "" THEN a ELSE Append(a, s)

\* A Telegram API answer (the JSON dict), and the handler's initial None.
NoneMsg == [tag |-> "None", message_id |-> 0]
OkMsg(id) == [tag |-> "ok", message_id |-> id]
NotOkMsg == [tag |-> "not_ok", message_id |-> 0]

\* No call awaited.
NoCall == [op |-> "none", text |-> <<>>, reply_to |-> 0, unit |-> 0]

\* A pseudo-id that is None.
NoId == <<>>

VARIABLES
    discord_to_telegram,   \* str(discord id) -> <<telegram id, display_name, author id>>
    telegram_to_discord,   \* telegram id -> <<str(discord id), display_name, author id>>
    webhook_to_telegram,   \* webhook pseudo-id -> telegram id
    telegram_to_webhook,   \* telegram id -> webhook pseudo-id
    telegram_offset,       \* polling offset
    msgTask,               \* per Discord message: its on_message coroutine
    delTask,               \* per Discord message: its on_message_delete coroutine
    deleteEvents,          \* delete events delivered so far
    poll,                  \* the telegram_polling coroutine
    tg,                    \* the handle_telegram_message coroutine the loop awaits
    tg_next_id,            \* Telegram server: next message id of the chat
    tg_last_update,        \* Telegram server: id of the newest update
    wh_next,               \* Discord server: webhook posts made so far
    temp_files,            \* temporary files on disk (named by update id)
    webhook_seen,          \* webhook posts whose on_message event was delivered
    tg_acked,              \* Telegram server: highest offset a getUpdates carried
    handled,               \* updates whose handler has returned (history)
    crashes,               \* restarts of the process so far
    polling_tasks,         \* the telegram_polling tasks besides the one of poll, tg
    tg_updates             \* the delivered updates the server or a fetched batch holds

vars == <<discord_to_telegram, telegram_to_discord, webhook_to_telegram,
          telegram_to_webhook, telegram_offset, msgTask, delTask, deleteEvents,
          poll, tg, tg_next_id, tg_last_update, wh_next, temp_files,
          webhook_seen, tg_acked, handled, crashes, polling_tasks,
          tg_updates>>

direct == <<discord_to_telegram, telegram_to_discord>>

relay == <<webhook_to_telegram, telegram_to_webhook>>

tables == <<direct, relay>>

discordSide == <<msgTask, delTask, deleteEvents, webhook_seen>>

\* The polling offset and the history of returned handlers.
cursor == <<telegram_offset, handled>>

\* The tasks the process runs: what a restart or a ready event changes.
process == <<crashes, polling_tasks>>

\* What only the Telegram server, a restart or a ready event changes.
server == <<tg_last_update, tg_acked, process, tg_updates>>

telegramSide == <<poll, tg, cursor, server, wh_next, temp_files>>

\* ------------------------------------------------------------ initial state
IdleMsg == [pc |-> "idle", channel |-> discord_channel_id, author |-> BotUser,
            content |-> "", attachments |-> 0, reference |-> 0, reply_to |-> 0,
            i |-> 0, call |-> NoCall, telegram_msg |-> NoneMsg,
            sent |-> 0, not_ok |-> 0, last_ok |-> 0, raised |-> FALSE]

\* calls counts the deleteMessage requests made for the message so far.
IdleDel == [pc |-> "idle", telegram_msg_id |-> 0, calls |-> 0,
            answer |-> "none", raised |-> FALSE]

\* ------------------------------------------- Discord -> Telegram (new message)
\* The speech-balloon emoji U+1F4AC that opens every relayed line.
SpeechBalloon == "U+1F4AC"

\* Variant: the line carries the content without the author's name.
Text_NoName(author, content) ==
    <<SpeechBalloon, " ", content>>

\* text = f"{SpeechBalloon} <b>{message.author.display_name}</b>: {message.content}"
Text(author, content) ==
    <<SpeechBalloon, " <b>", author.display_name, "</b>: ", content>>

\* caption = "" unless message.content, then f"<b>{display_name}</b>: {content}"
Caption(author, content) ==
    IF content # "" THEN <<"<b>", author.display_name, "</b>: ", content>> ELSE <<>>
\* The reply target taken from the reference without testing the table.
ReplyTo_Unchecked(reference) ==
    IF reference # 0
    THEN IF StrId(reference) \in DOMAIN discord_to_telegram
         THEN discord_to_telegram[StrId(reference)][1]
         ELSE reference
    ELSE 0

\* The reply target: the Telegram id mapped to the referenced Discord message.
ReplyTo(reference) ==
    IF reference # 0 /\ StrId(reference) \in DOMAIN discord_to_telegram
    THEN discord_to_telegram[StrId(reference)][1]
    ELSE 0

\* Which TelegramBot method an attachment is sent with.
SendOp(content_type) ==
    IF content_type # NoContentType
    THEN IF content_type[1] = "image" THEN "sendPhoto"
         ELSE IF content_type[1] = "video" THEN "sendVideo"
         ELSE "sendDocument"
    ELSE "sendDocument"

\* The message ids a Discord message can reference: none, an earlier native
\* message, or a message posted through the webhook.
References(d) == {0} \cup {e \in DIds : e < d} \cup {MaxDiscordMsg + k : k \in 1..wh_next}

\* What stays of a handler that returned: its locals are gone, the record keeps
\* its outcome (last answer, last accepted send, number of sends, error).
DoneMsg(t) == [IdleMsg EXCEPT !.pc = "done", !.telegram_msg = t.telegram_msg,
                              !.last_ok = t.last_ok, !.sent = t.sent,
                              !.not_ok = t.not_ok, !.raised = t.raised]

\* "Map messages for future replies and deletions": the handler's last lines.
RecordDirect(d, t) ==
    IF t.telegram_msg.tag = "ok"
    THEN /\ discord_to_telegram' =
              Put(discord_to_telegram, StrId(d),
                  <<t.telegram_msg.message_id, t.author.display_name, t.author.id>>)
         /\ telegram_to_discord' =
              Put(telegram_to_discord, t.telegram_msg.message_id,
                  <<StrId(d), t.author.display_name, t.author.id>>)
    ELSE UNCHANGED direct

\* handle_discord_message from the point where coroutine t stands (its last answer
\* stored, t.i attachments done) to its next await or to its end.  The content
\* type of an attachment is read when the loop reaches it.
ContinueDiscord(d, t) ==
    IF t.i < t.attachments
    THEN /\ \E ct \in ContentTypes :
              msgTask' = [msgTask EXCEPT ![d] =
                  [t EXCEPT !.pc = "await_send", !.i = t.i + 1, !.sent = t.sent + 1,
                            !.call = [op |-> SendOp(ct),
                                      text |-> Caption(t.author, t.content),
                                      reply_to |-> t.reply_to, unit |-> t.i + 1]]]
         /\ UNCHANGED direct
    ELSE /\ msgTask' = [msgTask EXCEPT ![d] = DoneMsg(t)]
         /\ RecordDirect(d, t)

\* handle_discord_message up to its first await.
handle_discord_message(d, author, content, attachments, reference) ==
    LET t0 == [IdleMsg EXCEPT !.author = author, !.content = content,
                              !.attachments = attachments, !.reference = reference,
                              !.reply_to = ReplyTo(reference)]
    IN  IF content # ""
        THEN /\ msgTask' = [msgTask EXCEPT ![d] =
                  [t0 EXCEPT !.pc = "await_send", !.sent = 1,
                             !.call = [op |-> "sendMessage",
                                       text |-> Text(author, content),
                                       reply_to |-> t0.reply_to, unit |-> 0]]]
             /\ UNCHANGED direct
        ELSE ContinueDiscord(d, t0)

\* Variant: the author is not compared with the bot's own user.
on_messageOf_NoSelfFilter(d, contents, counts) ==
    /\ msgTask[d].pc = "idle"
    /\ \A e \in DIds : e < d => msgTask[e].pc # "idle"
    /\ \E author \in {AuthorOf(d), BotUser},
          channel \in {discord_channel_id, OtherChannel},
          content \in contents, attachments \in counts,
          reference \in References(d) :
          IF channel # discord_channel_id
          THEN /\ msgTask' = [msgTask EXCEPT ![d] =
                       [IdleMsg EXCEPT !.pc = "ignored", !.channel = channel]]
               /\ UNCHANGED direct
          ELSE handle_discord_message(d, author, content, attachments, reference)
    /\ UNCHANGED <<relay, delTask, deleteEvents, tg_next_id>>
    /\ UNCHANGED <<telegramSide, webhook_seen>>

\* Variant: the channel of the message is not compared with the configured
\* channel.
on_messageOf_NoChannelFilter(d, contents, counts) ==
    /\ msgTask[d].pc = "idle"
    /\ \A e \in DIds : e < d => msgTask[e].pc # "idle"
    /\ \E author \in {AuthorOf(d), BotUser},
          channel \in {discord_channel_id, OtherChannel},
          content \in contents, attachments \in counts,
          reference \in References(d) :
          IF author = BotUser
          THEN /\ msgTask' = [msgTask EXCEPT ![d] =
                       [IdleMsg EXCEPT !.pc = "ignored", !.channel = channel]]
               /\ UNCHANGED direct
          ELSE LET t0 == [IdleMsg EXCEPT !.channel = channel,
                                         !.author = author, !.content = content,
                                         !.attachments = attachments,
                                         !.reference = reference,
                                         !.reply_to = ReplyTo(reference)]
               IN  IF content # ""
                   THEN /\ msgTask' = [msgTask EXCEPT ![d] =
                             [t0 EXCEPT !.pc = "await_send", !.sent = 1,
                                        !.call = [op |-> "sendMessage",
                                                  text |-> Text(author, content),
                                                  reply_to |-> t0.reply_to, unit |-> 0]]]
                        /\ UNCHANGED direct
                   ELSE ContinueDiscord(d, t0)
    /\ UNCHANGED <<relay, delTask, deleteEvents, tg_next_id>>
    /\ UNCHANGED <<telegramSide, webhook_seen>>

\* The on_message event of native message d (messages arrive in id order),
\* with the message drawn from the given contents and attachment counts.
on_messageOf(d, contents, counts) ==
    /\ msgTask[d].pc = "idle"
    /\ \A e \in DIds : e < d => msgTask[e].pc # "idle"
    /\ \E author \in {AuthorOf(d), BotUser},
          channel \in {discord_channel_id, OtherChannel},
          content \in contents, attachments \in counts,
          reference \in References(d) :
          IF author = BotUser \/ channel # discord_channel_id
          THEN /\ msgTask' = [msgTask EXCEPT ![d] =
                       [IdleMsg EXCEPT !.pc = "ignored", !.channel = channel]]
               /\ UNCHANGED direct
          ELSE handle_discord_message(d, author, content, attachments, reference)
    /\ UNCHANGED <<relay, delTask, deleteEvents, tg_next_id>>
    /\ UNCHANGED <<telegramSide, webhook_seen>>

on_message(d) == on_messageOf(d, Contents, 0..MaxAttach)
\* The on_message event of the k-th message posted through the webhook (each
\* post is announced once).  Its author is the webhook's user, not the bot's,
\* and message.webhook_id is set: the event is dropped at the second test.
\* webhook_seen records what the event led to.
on_message_webhook(k) ==
    /\ k \in 1..wh_next
    /\ \A e \in webhook_seen : e[1] # k
    /\ LET webhook_id == MaxDiscordMsg + k
       IN  webhook_seen' = webhook_seen \cup
              {<<k, IF webhook_id # 0 THEN "ignored" ELSE "await_send">>}
    /\ UNCHANGED <<tables, msgTask, delTask, deleteEvents, tg_next_id>>
    /\ UNCHANGED telegramSide

\* Telegram accepts the send the handler of d awaits and returns a new message id.
SendOk(d) ==
    /\ msgTask[d].pc = "await_send"
    /\ ContinueDiscord(d, [msgTask[d] EXCEPT !.telegram_msg = OkMsg(tg_next_id),
                                             !.last_ok = tg_next_id])
    /\ tg_next_id' = tg_next_id + 1
    /\ UNCHANGED <<relay, delTask, deleteEvents>>
    /\ UNCHANGED <<telegramSide, webhook_seen>>

\* Telegram answers {"ok": false, ...}.
SendNotOk(d) ==
    /\ msgTask[d].pc = "await_send"
    /\ ContinueDiscord(d, [msgTask[d] EXCEPT !.telegram_msg = NotOkMsg,
                                             !.not_ok = @ + 1])
    /\ UNCHANGED <<relay, delTask, deleteEvents, tg_next_id>>
    /\ UNCHANGED <<telegramSide, webhook_seen>>

\* The send raises (connection error, bad JSON): the handler's except logs it.
SendRaises(d) ==
    /\ msgTask[d].pc = "await_send"
    /\ msgTask' = [msgTask EXCEPT ![d] = DoneMsg([@ EXCEPT !.raised = TRUE])]
    /\ UNCHANGED <<tables, delTask, deleteEvents, tg_next_id>>
    /\ UNCHANGED <<telegramSide, webhook_seen>>

\* ---------------------------------------------- Discord -> Telegram (delete)
\* What stays of a delete handler that returned after its call was answered.
DoneDel(t, answer, raised) ==
    [IdleDel EXCEPT !.pc = "done", !.calls = t.calls, !.answer = answer,
                    !.raised = raised]

\* Variant: the lookup is made without the membership test, so a missing key
\* raises KeyError into the handler's except.
handle_discord_message_delete_NoTest(d) ==
    IF StrId(d) \in DOMAIN discord_to_telegram
    THEN delTask' = [delTask EXCEPT ![d] =
             [IdleDel EXCEPT !.pc = "await_delete", !.calls = delTask[d].calls + 1,
                             !.telegram_msg_id = discord_to_telegram[StrId(d)][1]]]
    ELSE delTask' = [delTask EXCEPT ![d] =
             [IdleDel EXCEPT !.pc = "done", !.calls = delTask[d].calls,
                             !.raised = TRUE]]

\* handle_discord_message_delete up to its await.
handle_discord_message_delete(d) ==
    IF StrId(d) \in DOMAIN discord_to_telegram
    THEN delTask' = [delTask EXCEPT ![d] =
             [IdleDel EXCEPT !.pc = "await_delete", !.calls = delTask[d].calls + 1,
                             !.telegram_msg_id = discord_to_telegram[StrId(d)][1]]]
    ELSE delTask' = [delTask EXCEPT ![d] =
             [IdleDel EXCEPT !.pc = "done", !.calls = delTask[d].calls]]

\* The on_message_delete event of native message d.
on_message_delete(d) ==
    /\ msgTask[d].pc # "idle"
    /\ delTask[d].pc \in {"idle", "done"}
    /\ deleteEvents < MaxDeleteEvents
    /\ deleteEvents' = deleteEvents + 1
    /\ IF msgTask[d].channel = discord_channel_id
       THEN handle_discord_message_delete(d)
       ELSE delTask' = [delTask EXCEPT ![d] =
                [IdleDel EXCEPT !.pc = "done", !.calls = delTask[d].calls]]
    /\ UNCHANGED <<tables, msgTask, tg_next_id>>
    /\ UNCHANGED <<telegramSide, webhook_seen>>

\* The on_message_delete event of the k-th message posted through the webhook:
\* message.webhook_id is set and the event is dropped.
on_message_delete_webhook(k) ==
    /\ k \in 1..wh_next
    /\ deleteEvents < MaxDeleteEvents
    /\ deleteEvents' = deleteEvents + 1
    /\ UNCHANGED <<tables, msgTask, delTask, tg_next_id>>
    /\ UNCHANGED <<telegramSide, webhook_seen>>

\* Variant: only the discord_to_telegram entry is removed.
DeleteOk_OneHalf(d) ==
    /\ delTask[d].pc = "await_delete"
    /\ IF StrId(d) \in DOMAIN discord_to_telegram
       THEN /\ discord_to_telegram' = Del(discord_to_telegram, StrId(d))
            /\ UNCHANGED telegram_to_discord
            /\ delTask' = [delTask EXCEPT ![d] = DoneDel(@, "ok", FALSE)]
       ELSE /\ UNCHANGED direct
            /\ delTask' = [delTask EXCEPT ![d] = DoneDel(@, "ok", TRUE)]
    /\ UNCHANGED <<relay, msgTask, deleteEvents, tg_next_id>>
    /\ UNCHANGED <<telegramSide, webhook_seen>>

\* Variant: the KeyError of the first del, raised when the entry went while
\* the handler waited, is not caught.
DeleteOk_KeyErrorEscapes(d) ==
    /\ delTask[d].pc = "await_delete"
    /\ IF StrId(d) \in DOMAIN discord_to_telegram
       THEN /\ discord_to_telegram' = Del(discord_to_telegram, StrId(d))
            /\ telegram_to_discord' = Del(telegram_to_discord, delTask[d].telegram_msg_id)
            /\ delTask' = [delTask EXCEPT ![d] = DoneDel(@, "ok", FALSE)]
       ELSE /\ UNCHANGED direct
            /\ delTask' = [delTask EXCEPT ![d] =
                              [DoneDel(@, "ok", TRUE) EXCEPT !.pc = "escaped"]]
    /\ UNCHANGED <<relay, msgTask, deleteEvents, tg_next_id>>
    /\ UNCHANGED <<telegramSide, webhook_seen>>

\* deleteMessage answers {"ok": true}: both entries are removed.  If the first
\* del finds no key (the entry went while the handler waited) the KeyError is
\* caught by the handler's except and the second table is not touched.
DeleteOk(d) ==
    /\ delTask[d].pc = "await_delete"
    /\ IF StrId(d) \in DOMAIN discord_to_telegram
       THEN /\ discord_to_telegram' = Del(discord_to_telegram, StrId(d))
            /\ telegram_to_discord' = Del(telegram_to_discord, delTask[d].telegram_msg_id)
            /\ delTask' = [delTask EXCEPT ![d] = DoneDel(@, "ok", FALSE)]
       ELSE /\ UNCHANGED direct
            /\ delTask' = [delTask EXCEPT ![d] = DoneDel(@, "ok", TRUE)]
    /\ UNCHANGED <<relay, msgTask, deleteEvents, tg_next_id>>
    /\ UNCHANGED <<telegramSide, webhook_seen>>

\* Variant: the entries are removed whatever deleteMessage answers.
DeleteNotOk_Purges(d) ==
    /\ delTask[d].pc = "await_delete"
    /\ discord_to_telegram' = Del(discord_to_telegram, StrId(d))
    /\ telegram_to_discord' = Del(telegram_to_discord, delTask[d].telegram_msg_id)
    /\ delTask' = [delTask EXCEPT ![d] = DoneDel(@, "not_ok", FALSE)]
    /\ UNCHANGED <<relay, msgTask, deleteEvents, tg_next_id>>
    /\ UNCHANGED <<telegramSide, webhook_seen>>

\* deleteMessage answers {"ok": false}: a warning is logged.
DeleteNotOk(d) ==
    /\ delTask[d].pc = "await_delete"
    /\ delTask' = [delTask EXCEPT ![d] = DoneDel(@, "not_ok", FALSE)]
    /\ UNCHANGED <<tables, msgTask, deleteEvents, tg_next_id>>
    /\ UNCHANGED <<telegramSide, webhook_seen>>

\* deleteMessage raises: the handler's except logs it.
DeleteRaises(d) ==
    /\ delTask[d].pc = "await_delete"
    /\ delTask' = [delTask EXCEPT ![d] = DoneDel(@, "raise", TRUE)]
    /\ UNCHANGED <<tables, msgTask, deleteEvents, tg_next_id>>
    /\ UNCHANGED <<telegramSide, webhook_seen>>

\* ------------------------------------------------------ Telegram -> Discord
\* Marks a key the Telegram JSON does not carry.
Absent == "<absent>"

\* The 'from' dict of a Telegram message.
TgUsers == {[id |-> 42, username |-> "ann_tg", first_name |-> "Ann"],
            [id |-> 43, username |-> Absent, first_name |-> "Bo"]}

\* Every 'from' dict of user 42 by its username and first_name keys: absent,
\* present and empty, present with a value.
TgUsersAny == [id : {42}, username : {Absent, "", "ann_tg"},
               first_name : {Absent, "", "Ann"}]

\* The content key a message carries ("other": none the handler knows).
TgKinds == {"text", "photo", "video", "document", "voice", "animation",
            "sticker", "other"}

MediaKinds == {"photo", "video", "document", "voice", "animation"}

\* The fixed markers of voice messages and of stickers without a picture.
AudioMarker == "U+1F3A4 Audio"
StickerMarker == "U+1F3AD emoji"

IdleTg == [pc |-> "idle", update_id |-> 0, type |-> "none", chat |-> telegram_chat_id,
           message_id |-> 0, replied_msg_id |-> 0, kind |-> "other",
           animated |-> FALSE, caption |-> "", username |-> "", avatar_url |-> <<>>,
           reply_text |-> <<>>, content |-> <<>>, file |-> FALSE, file_path |-> 0,
           discord_msg |-> NoId, posts |-> 0, answer |-> "none",
           discord_msg_id |-> NoId, webhook_deletes |-> 0]

\* A polling loop at the top of while True.  failed: the last get_updates call
\* of this loop raised or answered without ok, and the loop has not called
\* again since.
IdlePoll == [pc |-> "fetch", batch |-> <<>>, failed |-> FALSE]

\* username = user.get('username', user.get('first_name', 'User'))
DisplayName(user) ==
    IF user.username # Absent THEN user.username
    ELSE IF user.first_name # Absent THEN user.first_name
    ELSE "User"

\* The default avatar: f"https://api.dicebear.com/7.x/initials/svg?seed={user_id}"
DefaultAvatar(user_id) == <<"https://api.dicebear.com/7.x/initials/svg?seed=", user_id>>

\* get_telegram_file_url: the file URL, or "" when getFile is not ok or raises.
FileUrl(getfile) == IF getfile = "ok" THEN <<"https://api.telegram.org/file/bot", "path">>
                    ELSE <<>>

\* get_telegram_user_avatar, for each answer of getUserProfilePhotos
\* ("photo": ok with total_count > 0, "none": ok with no photo or not ok,
\* "raise") and of getFile ("ok", "not_ok", "raise").
Avatar(user_id, photos, getfile) ==
    IF photos = "photo" THEN FileUrl(getfile) ELSE DefaultAvatar(user_id)

\* Variant: the reply prefix is looked up in telegram_to_discord only.
ReplyText_DirectOnly(replied_msg_id) ==
    IF replied_msg_id = 0 THEN <<>>
    ELSE IF replied_msg_id \in DOMAIN telegram_to_discord
    THEN <<"> ", SpeechBalloon, " Replying to **",
           telegram_to_discord[replied_msg_id][2], "**\n\n">>
    ELSE <<>>

\* The reply prefix, read from the tables when the avatar is known.
ReplyText(replied_msg_id) ==
    IF replied_msg_id = 0 THEN <<>>
    ELSE IF replied_msg_id \in DOMAIN telegram_to_discord
    THEN <<"> ", SpeechBalloon, " Replying to **",
           telegram_to_discord[replied_msg_id][2], "**\n\n">>
    ELSE IF replied_msg_id \in DOMAIN telegram_to_webhook
    THEN <<"> ", SpeechBalloon, " Replying to previous message\n\n">>
    ELSE <<>>

\* extract_webhook_info: <<webhook id, token>>, or <<"", "">> for (None, None).
extract_webhook_info(url) ==
    IF Len(url) >= 2 THEN <<url[Len(url) - 1], url[Len(url)]>> ELSE <<"", "">>

\* Variant: the offset is set to the id of the update, not one past it.
AfterUpdate_NoAdvance(u) ==
    /\ telegram_offset' = u
    /\ handled' = handled \cup {u}
    /\ poll' = [poll EXCEPT !.batch = Tail(@),
                            !.pc = IF Len(poll.batch) > 1 THEN "dispatch" ELSE "sleep"]

\* While a handler is awaited the loop stands at "await self.handle_...(update)"
\* (poll.pc = "handling").  The polling loop after the handler of update u returned:
\* self.telegram_offset = update['update_id'] + 1, then the next update or sleep.
AfterUpdate(u) ==
    /\ telegram_offset' = u + 1
    /\ handled' = handled \cup {u}
    /\ poll' = [poll EXCEPT !.batch = Tail(@),
                            !.pc = IF Len(poll.batch) > 1 THEN "dispatch" ELSE "sleep"]

\* "Map messages for future replies and deletions" of handle_telegram_message.
RecordRelay(message_id, discord_msg) ==
    IF discord_msg # NoId /\ message_id # 0
    THEN /\ telegram_to_webhook' = Put(telegram_to_webhook, message_id, discord_msg)
         /\ webhook_to_telegram' = Put(webhook_to_telegram, discord_msg, message_id)
    ELSE UNCHANGED relay

\* handle_telegram_message returns and the loop goes on.  The handler's locals
\* are gone; the record keeps which update it was and how it ended.
ReturnTg(t) ==
    /\ tg' = [IdleTg EXCEPT !.pc = "done", !.update_id = t.update_id, !.type = t.type,
                            !.chat = t.chat, !.message_id = t.message_id,
                            !.kind = t.kind, !.posts = t.posts, !.answer = t.answer,
                            !.discord_msg = t.discord_msg,
                            !.webhook_deletes = t.webhook_deletes]
    /\ AfterUpdate(t.update_id)

\* The webhook post the handler awaits next.
AwaitWebhook(t, content, file) ==
    /\ tg' = [t EXCEPT !.pc = "await_webhook", !.content = content, !.file = file,
                       !.posts = t.posts + 1]
    /\ UNCHANGED <<poll, cursor>>

\* Variant: only the telegram_to_discord entry is removed.
RemoveDirect_OneHalf(message_id, discord_msg_id) ==
    IF message_id \in DOMAIN telegram_to_discord
    THEN /\ telegram_to_discord' = Del(telegram_to_discord, message_id)
         /\ UNCHANGED discord_to_telegram
    ELSE UNCHANGED direct

\* del self.telegram_to_discord[message_id]; the other half if it is there.
\* A missing first key raises KeyError, caught by the inner except.
RemoveDirect(message_id, discord_msg_id) ==
    IF message_id \in DOMAIN telegram_to_discord
    THEN /\ telegram_to_discord' = Del(telegram_to_discord, message_id)
         /\ discord_to_telegram' = Del(discord_to_telegram, discord_msg_id)
    ELSE UNCHANGED direct

\* Variant: only the telegram_to_webhook entry is removed.
RemoveRelay_OneHalf(message_id) ==
    /\ telegram_to_webhook' = Del(telegram_to_webhook, message_id)
    /\ UNCHANGED webhook_to_telegram

\* The elif branch: the relay pair of message_id.
RemoveRelay(message_id) ==
    /\ telegram_to_webhook' = Del(telegram_to_webhook, message_id)
    /\ webhook_to_telegram' = Del(webhook_to_telegram, telegram_to_webhook[message_id])

\* The Telegram server produces one more update (at most n in a run).
TelegramUpdateArrivesUpTo(n) ==
    /\ tg_last_update < n
    /\ tg_last_update' = tg_last_update + 1
    /\ UNCHANGED <<tables, discordSide, poll, tg, cursor, tg_next_id, wh_next,
                   temp_files, tg_acked, process, tg_updates>>

TelegramUpdateArrives == TelegramUpdateArrivesUpTo(MaxUpdates)

\* ------------------------------------------------------------- polling loop
\* The updates getUpdates(offset) returns: all with update_id >= offset.  The
\* server forgets the updates below the highest offset it was ever sent, so
\* the operator is used with that offset.
Pending(offset) ==
    [k \in 1..(tg_last_update - Max(offset, 1) + 1) |-> Max(offset, 1) + k - 1]

\* The updates in the batches the other polling tasks have fetched and not
\* yet handled.
InHand ==
    UNION {{polling_tasks[i].poll.batch[j] : j \in 1..Len(polling_tasks[i].poll.batch)} :
           i \in 1..Len(polling_tasks)}

\* The delivered updates still held after a getUpdates(offset): the server
\* forgets an update once a call carries a higher offset (it is confirmed),
\* and a fetched batch keeps its updates as they were read.
Held(offset) ==
    [u \in {x \in DOMAIN tg_updates : x >= offset \/ x \in InHand} |-> tg_updates[u]]

\* Variant: the loop fetches again while the handler of an update is awaited.
GetUpdatesOk_WhileHandling ==
    /\ poll.pc \in {"fetch", "handling"}
    /\ LET batch == Pending(Max(tg_acked, telegram_offset))
       IN  poll' = [pc |-> IF Len(batch) > 0 THEN "dispatch" ELSE "sleep",
                    batch |-> batch, failed |-> FALSE]
    /\ tg_acked' = Max(tg_acked, telegram_offset)
    /\ tg_updates' = Held(Max(tg_acked, telegram_offset))
    /\ UNCHANGED <<tables, discordSide, tg, cursor, tg_next_id, tg_last_update, process,
                   wh_next, temp_files>>

\* getUpdates answers {"ok": true, "result": [...]}.
GetUpdatesOk ==
    /\ poll.pc = "fetch"
    /\ LET batch == Pending(Max(tg_acked, telegram_offset))
       IN  poll' = [pc |-> IF Len(batch) > 0 THEN "dispatch" ELSE "sleep",
                    batch |-> batch, failed |-> FALSE]
    /\ tg_acked' = Max(tg_acked, telegram_offset)
    /\ tg_updates' = Held(Max(tg_acked, telegram_offset))
    /\ UNCHANGED <<tables, discordSide, tg, cursor, tg_next_id, tg_last_update, process,
                   wh_next, temp_files>>

\* getUpdates answers {"ok": false}: nothing is dispatched, sleep(1).
GetUpdatesNotOk ==
    /\ poll.pc = "fetch"
    /\ poll' = [poll EXCEPT !.pc = "sleep", !.failed = TRUE]
    /\ tg_acked' = Max(tg_acked, telegram_offset)
    /\ tg_updates' = Held(Max(tg_acked, telegram_offset))
    /\ UNCHANGED <<tables, discordSide, tg, cursor, tg_next_id, tg_last_update, process,
                   wh_next, temp_files>>

\* getUpdates raises: the loop's except logs it, sleep(5).
GetUpdatesRaises ==
    /\ poll.pc = "fetch"
    /\ poll' = [poll EXCEPT !.pc = "backoff", !.failed = TRUE]
    /\ tg_acked' = Max(tg_acked, telegram_offset)
    /\ tg_updates' = Held(Max(tg_acked, telegram_offset))
    /\ UNCHANGED <<tables, discordSide, tg, cursor, tg_next_id, tg_last_update, process,
                   wh_next, temp_files>>

\* Variant: the loop goes on after the short sleep only.
PollWakes_NoBackoffReturn ==
    /\ poll.pc \in {"sleep"}
    /\ poll' = [poll EXCEPT !.pc = "fetch"]
    /\ UNCHANGED <<tables, discordSide, tg, cursor, tg_next_id, server,
                   wh_next, temp_files>>

\* asyncio.sleep returns: back to the top of while True.
PollWakes ==
    /\ poll.pc \in {"sleep", "backoff"}
    /\ poll' = [poll EXCEPT !.pc = "fetch"]
    /\ UNCHANGED <<tables, discordSide, tg, cursor, tg_next_id, server,
                   wh_next, temp_files>>

\* --------------------------------------------- Telegram -> Discord (delete)
\* handle_telegram_message_delete up to its await (or to its end).
handle_telegram_message_delete(t, channel) ==
    IF t.message_id = 0
    THEN ReturnTg(t) /\ UNCHANGED tables
    ELSE IF t.message_id \in DOMAIN telegram_to_discord
    THEN LET discord_msg_id == telegram_to_discord[t.message_id][1]
             info == extract_webhook_info(webhook_url)
         IN  IF channel /\ info[1] # "" /\ info[2] # ""
             THEN /\ tg' = [t EXCEPT !.pc = "await_webhook_delete",
                                     !.discord_msg_id = discord_msg_id,
                                     !.webhook_deletes = 1]
                  /\ poll' = [poll EXCEPT !.pc = "handling"]
                  /\ UNCHANGED <<cursor, tables>>
             ELSE /\ ReturnTg([t EXCEPT !.discord_msg_id = discord_msg_id])
                  /\ RemoveDirect(t.message_id, discord_msg_id)
                  /\ UNCHANGED relay
    ELSE IF t.message_id \in DOMAIN telegram_to_webhook
    THEN /\ ReturnTg(t)
         /\ RemoveRelay(t.message_id)
         /\ UNCHANGED direct
    ELSE ReturnTg(t) /\ UNCHANGED tables

\* What the handlers read of an update.
Update(type, chat, message_id, replied_msg_id) ==
    [type |-> type, chat |-> chat, message_id |-> message_id,
     replied_msg_id |-> replied_msg_id]

\* updates['result'] holds update u as `update`: an update the server still
\* holds is delivered as it was delivered before, another one is read now.
Delivers(u, update) ==
    IF u \in DOMAIN tg_updates
    THEN update = tg_updates[u] /\ UNCHANGED tg_updates
    ELSE tg_updates' = Put(tg_updates, u, update)

\* The message id of a 'message' update: the chat's next id when the message
\* is new.
MessageIds(u) ==
    IF u \in DOMAIN tg_updates THEN {tg_updates[u].message_id} ELSE {tg_next_id}

\* The chat's next message id after update u was delivered.
NextIdAfter(u) ==
    IF u \in DOMAIN tg_updates THEN tg_next_id ELSE tg_next_id + 1

\* The loop hands a 'deleted_message' update to the handler.
DispatchDelete ==
    /\ poll.pc = "dispatch"
    /\ \E message_id \in 0..(tg_next_id - 1), chat \in {telegram_chat_id, OtherChat},
          channel \in BOOLEAN :
          /\ Delivers(Head(poll.batch),
                      Update("deleted_message", chat, message_id, 0))
          /\ handle_telegram_message_delete(
                 [IdleTg EXCEPT !.update_id = Head(poll.batch),
                                !.type = "deleted_message", !.chat = chat,
                                !.message_id = message_id], channel)
    /\ UNCHANGED <<discordSide, tg_next_id, tg_last_update, tg_acked, process,
                   wh_next, temp_files>>

\* Variant: the entries are removed only when the HTTP DELETE answered 204.
WebhookDeleteAnswers_KeepsOnFailure ==
    /\ tg.pc = "await_webhook_delete"
    /\ \E answer \in {"204", "status", "raise"} :
          /\ ReturnTg([tg EXCEPT !.answer = answer])
          /\ IF answer = "204"
             THEN RemoveDirect(tg.message_id, tg.discord_msg_id)
             ELSE UNCHANGED direct
    /\ UNCHANGED <<relay, discordSide, tg_next_id, server, wh_next, temp_files>>

\* The HTTP DELETE of delete_webhook_message answers (204, another status, or
\* it raises: all three only log); then both entries are removed.
WebhookDeleteAnswers ==
    /\ tg.pc = "await_webhook_delete"
    /\ \E answer \in {"204", "status", "raise"} :
          ReturnTg([tg EXCEPT !.answer = answer])
    /\ RemoveDirect(tg.message_id, tg.discord_msg_id)
    /\ UNCHANGED <<relay, discordSide, tg_next_id, server, wh_next, temp_files>>

\* ---------------------------------------- Telegram -> Discord (new message)
\* The loop hands an update that carries neither 'deleted_message' nor
\* 'message' to the handler: "if not message: return".
DispatchOther ==
    /\ poll.pc = "dispatch"
    /\ Delivers(Head(poll.batch), Update("other", telegram_chat_id, 0, 0))
    /\ ReturnTg([IdleTg EXCEPT !.update_id = Head(poll.batch), !.type = "other"])
    /\ UNCHANGED <<tables, discordSide, tg_next_id, tg_last_update, tg_acked, process,
                   wh_next, temp_files>>

\* Variant: the offset is moved past the update when its handler is started.
DispatchMessage_AckFirst ==
    /\ poll.pc = "dispatch"
    /\ \E chat \in {telegram_chat_id, OtherChat}, replied \in 0..(tg_next_id - 1),
          message_id \in MessageIds(Head(poll.batch)) :
          LET t0 == [IdleTg EXCEPT !.update_id = Head(poll.batch),
                                   !.type = "message", !.chat = chat]
          IN  /\ Delivers(Head(poll.batch),
                          Update("message", chat, message_id, replied))
              /\ IF chat # telegram_chat_id
                 THEN ReturnTg(t0) /\ UNCHANGED tg_next_id
                 ELSE /\ tg' = [t0 EXCEPT !.pc = "await_avatar",
                                          !.message_id = message_id,
                                          !.replied_msg_id = replied]
                      /\ tg_next_id' = NextIdAfter(Head(poll.batch))
                      /\ poll' = [poll EXCEPT !.pc = "handling"]
                      /\ telegram_offset' = Head(poll.batch) + 1
                      /\ UNCHANGED handled
    /\ UNCHANGED <<tables, discordSide, tg_last_update, tg_acked, process,
                   wh_next, temp_files>>

\* Variant: the chat of the message is not compared with the configured chat.
DispatchMessage_NoChatFilter ==
    /\ poll.pc = "dispatch"
    /\ \E chat \in {telegram_chat_id, OtherChat}, replied \in 0..(tg_next_id - 1),
          message_id \in MessageIds(Head(poll.batch)) :
          LET t0 == [IdleTg EXCEPT !.update_id = Head(poll.batch),
                                   !.type = "message", !.chat = chat]
          IN  /\ Delivers(Head(poll.batch),
                          Update("message", chat, message_id, replied))
              /\ tg' = [t0 EXCEPT !.pc = "await_avatar",
                                  !.message_id = message_id,
                                  !.replied_msg_id = replied]
              /\ tg_next_id' = NextIdAfter(Head(poll.batch))
              /\ poll' = [poll EXCEPT !.pc = "handling"]
              /\ UNCHANGED cursor
    /\ UNCHANGED <<tables, discordSide, tg_last_update, tg_acked, process,
                   wh_next, temp_files>>

\* The loop hands a 'message' update to the handler, which runs to the avatar
\* request (or returns at once for a message of another chat).  A message of
\* the configured chat carries the chat's next message id.
DispatchMessage ==
    /\ poll.pc = "dispatch"
    /\ \E chat \in {telegram_chat_id, OtherChat}, replied \in 0..(tg_next_id - 1),
          message_id \in MessageIds(Head(poll.batch)) :
          LET t0 == [IdleTg EXCEPT !.update_id = Head(poll.batch),
                                   !.type = "message", !.chat = chat]
          IN  /\ Delivers(Head(poll.batch),
                          Update("message", chat, message_id, replied))
              /\ IF chat # telegram_chat_id
                 THEN ReturnTg(t0) /\ UNCHANGED tg_next_id
                 ELSE /\ tg' = [t0 EXCEPT !.pc = "await_avatar",
                                          !.message_id = message_id,
                                          !.replied_msg_id = replied]
                      /\ tg_next_id' = NextIdAfter(Head(poll.batch))
                      /\ poll' = [poll EXCEPT !.pc = "handling"]
                      /\ UNCHANGED cursor
    /\ UNCHANGED <<tables, discordSide, tg_last_update, tg_acked, process,
                   wh_next, temp_files>>

\* webhook_data['content'] of a message sent with its file (or without one, if
\* the download failed).
MediaContent(t) ==
    IF t.kind = "voice" THEN Cat(t.reply_text, AudioMarker)
    ELSE IF t.kind = "sticker" THEN t.reply_text
    ELSE Cat(t.reply_text, t.caption)

\* The answers of getUserProfilePhotos, and of getFile when it is asked.
PhotoAnswers == {"photo", "none", "raise"}
FileAnswers == {"ok", "not_ok", "raise"}

\* Variant: a message with none of the known contents is posted the way an
\* animated sticker without a thumbnail is.
AvatarAnswersOf_PostsUnknown(users, photoAnswers, kinds) ==
    /\ tg.pc = "await_avatar"
    /\ \E user \in users, photos \in photoAnswers,
          getfile \in FileAnswers, kind \in kinds,
          caption \in {"", "cap"}, animated \in BOOLEAN, thumbnail \in BOOLEAN :
          LET t == [tg EXCEPT !.username = DisplayName(user),
                              !.avatar_url = Avatar(user.id, photos, getfile),
                              !.reply_text = ReplyText(tg.replied_msg_id),
                              !.kind = kind, !.animated = animated,
                              !.caption = caption]
          IN  /\ photos = "photo" \/ getfile = "ok"
              /\ kind = "sticker" \/ (~animated /\ ~thumbnail)
              /\ animated \/ ~thumbnail
              /\ kind \in {"photo", "video", "document", "animation"} \/ caption = ""
              /\ IF kind = "text"
                 THEN AwaitWebhook(t, Cat(t.reply_text, "text"), FALSE)
                 ELSE IF kind \in MediaKinds \/ (kind = "sticker" /\ (~animated \/ thumbnail))
                 THEN tg' = [t EXCEPT !.pc = "await_download"]
                      /\ UNCHANGED <<poll, cursor>>
                 ELSE AwaitWebhook(t, Cat(t.reply_text, StickerMarker), FALSE)
    /\ UNCHANGED <<tables, discordSide, tg_next_id, server, wh_next, temp_files>>

\* The avatar is known: the reply prefix is read from the tables and the
\* handler branches on the content of the message up to its next await.  The
\* sender, the answers and the content are drawn from the given sets.
AvatarAnswersOf(users, photoAnswers, kinds) ==
    /\ tg.pc = "await_avatar"
    /\ \E user \in users, photos \in photoAnswers,
          getfile \in FileAnswers, kind \in kinds,
          caption \in {"", "cap"}, animated \in BOOLEAN, thumbnail \in BOOLEAN :
          LET t == [tg EXCEPT !.username = DisplayName(user),
                              !.avatar_url = Avatar(user.id, photos, getfile),
                              !.reply_text = ReplyText(tg.replied_msg_id),
                              !.kind = kind, !.animated = animated,
                              !.caption = caption]
          IN  /\ photos = "photo" \/ getfile = "ok"
              /\ kind = "sticker" \/ (~animated /\ ~thumbnail)
              /\ animated \/ ~thumbnail
              /\ kind \in {"photo", "video", "document", "animation"} \/ caption = ""
              /\ IF kind = "text"
                 THEN AwaitWebhook(t, Cat(t.reply_text, "text"), FALSE)
                 ELSE IF kind \in MediaKinds \/ (kind = "sticker" /\ (~animated \/ thumbnail))
                 THEN tg' = [t EXCEPT !.pc = "await_download"]
                      /\ UNCHANGED <<poll, cursor>>
                 ELSE IF kind = "sticker"
                 THEN AwaitWebhook(t, Cat(t.reply_text, StickerMarker), FALSE)
                 ELSE ReturnTg(t)
    /\ UNCHANGED <<tables, discordSide, tg_next_id, server, wh_next, temp_files>>

AvatarAnswers == AvatarAnswersOf(TgUsers, PhotoAnswers, TgKinds)

\* download_telegram_file has a file (named by the update) or None.  With
\* created = TRUE and no path the body read raised after the file was opened.
\* Then the handler runs to the webhook post, or returns if a static sticker
\* has no file.
Downloaded(file_path, created) ==
    /\ tg.pc = "await_download"
    /\ temp_files' = IF created THEN temp_files \cup {tg.update_id} ELSE temp_files
    /\ LET t == [tg EXCEPT !.file_path = file_path]
       IN  IF t.kind = "sticker" /\ file_path = 0
           THEN IF t.animated
                THEN AwaitWebhook(t, Cat(t.reply_text, StickerMarker), FALSE)
                ELSE ReturnTg(t)
           ELSE AwaitWebhook(t, MediaContent(t), file_path # 0)
    /\ UNCHANGED <<tables, discordSide, tg_next_id, server, wh_next>>

\* getFile ok, GET 200, body read and written.
DownloadOk == Downloaded(tg.update_id, TRUE)

\* getFile not ok or raising, GET not 200 or raising: None, no file made.
DownloadFails == Downloaded(0, FALSE)

\* response.read() raises inside "with open(temp_file, 'wb')": None is returned
\* and the opened file stays.
DownloadReadRaises == Downloaded(0, TRUE)

\* send_webhook_message returned discord_msg (NoId for None): the temporary
\* file is removed, the pair is recorded and the handler returns.
WebhookReturns(discord_msg, answer, posted) ==
    /\ tg.pc = "await_webhook"
    /\ wh_next' = IF posted THEN wh_next + 1 ELSE wh_next
    /\ temp_files' = IF tg.file_path # 0 THEN temp_files \ {tg.file_path} ELSE temp_files
    /\ RecordRelay(tg.message_id, discord_msg)
    /\ ReturnTg([tg EXCEPT !.discord_msg = discord_msg, !.answer = answer])
    /\ UNCHANGED <<direct, discordSide, tg_next_id, server>>

\* Status 200/204 and a JSON body with the id of the new Discord message.
WebhookOkWithId == WebhookReturns(StrId(MaxDiscordMsg + wh_next + 1), "id", TRUE)

\* Status 200/204 and a JSON body without "id": the id is
\* f"webhook_{datetime.now().timestamp()}", whatever the wall clock reads.
WebhookOkNoId == \E ts \in 1..MaxClock : WebhookReturns(<<"webhook_", ts>>, "no_id", TRUE)

\* Status 200/204 without a JSON body (204 No Content): response.json()
\* raises, the except returns None.
WebhookOkNoBody == WebhookReturns(NoId, "no_body", TRUE)

\* Variant: the status is not tested, the fallback id is returned for any answer.
WebhookFails_FallbackId ==
    \E ts \in 1..MaxClock : WebhookReturns(<<"webhook_", ts>>, "failed", FALSE)

\* Variant: a failing webhook post raises out of the handler into the loop's
\* except: the rest of the batch is dropped and the loop takes the long sleep.
WebhookFails_Propagates ==
    /\ tg.pc = "await_webhook"
    /\ tg' = [IdleTg EXCEPT !.pc = "done", !.update_id = tg.update_id, !.type = tg.type,
                            !.chat = tg.chat, !.message_id = tg.message_id,
                            !.kind = tg.kind, !.posts = tg.posts, !.answer = "failed"]
    /\ poll' = [pc |-> "backoff", batch |-> <<>>, failed |-> FALSE]
    /\ UNCHANGED <<tables, discordSide, cursor, tg_next_id, server, wh_next, temp_files>>

\* Another status (the function falls through) or the request raises: None.
WebhookFails == WebhookReturns(NoId, "failed", FALSE)

\* ------------------------------------------------------------------ restart
\* on_ready once more (discord.py calls it again whenever a RESUME request
\* fails): asyncio.create_task(self.telegram_polling()) starts one more loop
\* on the same telegram_offset; the task stands before its first get_updates.
on_ready ==
    /\ Len(polling_tasks) < MaxReady
    /\ polling_tasks' = Append(polling_tasks, [poll |-> IdlePoll, tg |-> IdleTg])
    /\ UNCHANGED <<tables, discordSide, poll, tg, cursor, tg_next_id, tg_last_update,
                   tg_acked, crashes, tg_updates, wh_next, temp_files>>

\* The event loop resumes another polling task: every telegram_polling task
\* stands at an await (get_updates, sleep, or an await inside the handler it
\* awaits), so the loop that poll and tg describe is put aside and the first
\* of the other tasks takes its place.  Between the return of get_updates or
\* of a handler and the next handler's first await ("dispatch") nothing else
\* runs.
OtherLoopRuns ==
    /\ Len(polling_tasks) > 0
    /\ poll.pc # "dispatch"
    /\ poll' = Head(polling_tasks).poll
    /\ tg' = Head(polling_tasks).tg
    /\ polling_tasks' = Append(Tail(polling_tasks), [poll |-> poll, tg |-> tg])
    /\ UNCHANGED <<tables, discordSide, cursor, tg_next_id, tg_last_update,
                   tg_acked, crashes, tg_updates, wh_next, temp_files>>

\* The process stops at any point and is started again: __init__ builds the
\* empty tables and telegram_offset = 0, on_ready starts the polling loop
\* anew, and every coroutine that was in flight is gone.  What the servers
\* and the disk hold stays: the message ids handed out, the updates and the
\* offset Telegram was last sent, the webhook posts, the temporary files.  An
\* update delivered again is read from the server's answer again.
Crash ==
    /\ crashes < MaxCrashes
    /\ crashes' = crashes + 1
    /\ discord_to_telegram' = EmptyDict
    /\ telegram_to_discord' = EmptyDict
    /\ webhook_to_telegram' = EmptyDict
    /\ telegram_to_webhook' = EmptyDict
    /\ telegram_offset' = 0
    /\ poll' = IdlePoll
    /\ tg' = IdleTg
    /\ polling_tasks' = <<>>
    /\ msgTask' = [d \in DIds |->
                      IF msgTask[d].pc = "await_send"
                      THEN DoneMsg([msgTask[d] EXCEPT !.raised = TRUE])
                      ELSE msgTask[d]]
    /\ delTask' = [d \in DIds |->
                      IF delTask[d].pc = "await_delete"
                      THEN DoneDel(delTask[d], "none", TRUE)
                      ELSE delTask[d]]
    /\ UNCHANGED <<deleteEvents, webhook_seen, handled, tg_next_id, tg_last_update,
                   tg_acked, tg_updates, wh_next, temp_files>>

\* ------------------------------------------------------------ specification
Init ==
    /\ discord_to_telegram = EmptyDict
    /\ telegram_to_discord = EmptyDict
    /\ webhook_to_telegram = EmptyDict
    /\ telegram_to_webhook = EmptyDict
    /\ telegram_offset = 0
    /\ msgTask = [d \in DIds |-> IdleMsg]
    /\ delTask = [d \in DIds |-> IdleDel]
    /\ deleteEvents = 0
    /\ poll = IdlePoll
    /\ tg = IdleTg
    /\ tg_next_id = 1
    /\ tg_last_update = 0
    /\ wh_next = 0
    /\ temp_files = {}
    /\ webhook_seen = {}
    /\ tg_acked = 0
    /\ handled = {}
    /\ crashes = 0
    /\ polling_tasks = <<>>
    /\ tg_updates = EmptyDict

DiscordNext ==
    \E d \in DIds :
        \/ on_message(d)
        \/ SendOk(d)
        \/ SendNotOk(d)
        \/ SendRaises(d)
        \/ on_message_delete(d)
        \/ DeleteOk(d)
        \/ DeleteNotOk(d)
        \/ DeleteRaises(d)

\* The polling loop and its handlers, but for the answer of the webhook
\* deletion, which only a direct pair leads to.
TelegramRelayNext ==
    \/ TelegramUpdateArrives
    \/ GetUpdatesOk
    \/ GetUpdatesNotOk
    \/ GetUpdatesRaises
    \/ PollWakes
    \/ DispatchDelete
    \/ DispatchOther
    \/ DispatchMessage
    \/ AvatarAnswers
    \/ DownloadOk
    \/ DownloadFails
    \/ DownloadReadRaises
    \/ WebhookOkWithId
    \/ WebhookOkNoId
    \/ WebhookOkNoBody
    \/ WebhookFails

TelegramNext == TelegramRelayNext \/ WebhookDeleteAnswers

PollNext ==
    \/ TelegramUpdateArrives
    \/ GetUpdatesOk
    \/ PollWakes

Next ==
    \/ DiscordNext
    \/ \E k \in 1..wh_next : on_message_delete_webhook(k)
    \/ TelegramNext
    \/ \E k \in 1..wh_next : on_message_webhook(k)
    \/ on_ready
    \/ OtherLoopRuns
    \/ Crash

\* The whole program.
Spec == Init /\ [][Next]_vars

\* The direct correlation: every handler that reads or writes
\* discord_to_telegram and telegram_to_discord, with Telegram updates that are
\* deletions.
NextDirect ==
    \/ DiscordNext
    \/ TelegramUpdateArrivesUpTo(MaxDirectUpdates)
    \/ GetUpdatesOk
    \/ PollWakes
    \/ DispatchDelete
    \/ WebhookDeleteAnswers

SpecDirect == Init /\ [][NextDirect]_vars

\* The Discord handlers alone.
SpecDiscord == Init /\ [][DiscordNext]_vars

\* The Telegram polling loop and its handlers alone: no direct pair is ever
\* stored, so the webhook deletion is never requested.
SpecTelegram == Init /\ [][TelegramRelayNext]_vars

\* Both directions together: Discord messages with a text and no attachment,
\* Telegram text messages of one sender, deletions on both sides.
DiscordTextNext ==
    \E d \in DIds :
        \/ on_messageOf(d, {"hi"}, {0})
        \/ SendOk(d)
        \/ SendNotOk(d)
        \/ SendRaises(d)
        \/ on_message_delete(d)
        \/ DeleteOk(d)
        \/ DeleteNotOk(d)
        \/ DeleteRaises(d)

TelegramTextNext ==
    \/ PollNext
    \/ DispatchDelete
    \/ WebhookDeleteAnswers
    \/ DispatchMessage
    \/ AvatarAnswersOf({u \in TgUsers : u.id = 42}, {"none"}, {"text"})
    \/ WebhookOkWithId
    \/ WebhookOkNoId
    \/ WebhookOkNoBody
    \/ WebhookFails

NextSync ==
    \/ DiscordTextNext
    \/ \E k \in 1..wh_next : on_message_delete_webhook(k)
    \/ TelegramTextNext

SpecSync == Init /\ [][NextSync]_vars

\* The insertions of both directions: every Discord message, a Telegram text
\* message of one sender, no deletion.
NextInsert ==
    \/ \E d \in DIds : on_message(d) \/ SendOk(d) \/ SendNotOk(d) \/ SendRaises(d)
    \/ TelegramUpdateArrivesUpTo(MaxDirectUpdates)
    \/ GetUpdatesOk
    \/ PollWakes
    \/ DispatchMessage
    \/ AvatarAnswersOf({u \in TgUsers : u.id = 42}, {"none"}, {"text"})
    \/ WebhookOkWithId
    \/ WebhookOkNoId
    \/ WebhookOkNoBody
    \/ WebhookFails

SpecInsert == Init /\ [][NextInsert]_vars

\* The polling loop under the scheduling the event loop and the HTTP client
\* give it: a sleep ends, the loop goes on to the next update when a handler
\* has returned, and every request is answered or raises (aiohttp ends a
\* request after its total timeout at the latest).
PollFairness ==
    /\ WF_vars(PollWakes)
    /\ WF_vars(GetUpdatesOk \/ GetUpdatesNotOk \/ GetUpdatesRaises)
    /\ WF_vars(DispatchDelete \/ DispatchOther \/ DispatchMessage)
    /\ WF_vars(AvatarAnswers)
    /\ WF_vars(DownloadOk \/ DownloadFails \/ DownloadReadRaises)
    /\ WF_vars(WebhookOkWithId \/ WebhookOkNoId \/ WebhookOkNoBody \/ WebhookFails)

SpecPollFair == Init /\ [][TelegramRelayNext]_vars /\ PollFairness

\* The polling loop with Telegram text messages, stopped and started again.
NextRestart ==
    \/ PollNext
    \/ GetUpdatesNotOk
    \/ GetUpdatesRaises
    \/ DispatchOther
    \/ DispatchMessage
    \/ AvatarAnswersOf({u \in TgUsers : u.id = 42}, {"none"}, {"text"})
    \/ WebhookOkWithId
    \/ WebhookFails
    \/ Crash

SpecRestart == Init /\ [][NextRestart]_vars

\* Text messages relayed in both directions, with the on_message events that
\* Discord delivers for the webhook posts.
NextLoop ==
    \/ \E d \in DIds : \/ on_messageOf(d, {"hi"}, {0})
                       \/ SendOk(d)
                       \/ SendNotOk(d)
                       \/ SendRaises(d)
    \/ \E k \in 1..wh_next : on_message_webhook(k)
    \/ PollNext
    \/ DispatchMessage
    \/ AvatarAnswersOf({u \in TgUsers : u.id = 42}, {"none"}, {"text"})
    \/ WebhookOkWithId
    \/ WebhookOkNoId
    \/ WebhookOkNoBody
    \/ WebhookFails

SpecLoop == Init /\ [][NextLoop]_vars

\* Every handler with every outcome of its outbound calls: Discord text
\* messages and their deletion, one Telegram update of any kind.
NextFailures ==
    \/ DiscordTextNext
    \/ TelegramUpdateArrivesUpTo(MaxDirectUpdates)
    \/ GetUpdatesOk
    \/ PollWakes
    \/ DispatchDelete
    \/ WebhookDeleteAnswers
    \/ DispatchMessage
    \/ AvatarAnswers
    \/ DownloadOk
    \/ DownloadFails
    \/ DownloadReadRaises
    \/ WebhookOkWithId
    \/ WebhookOkNoId
    \/ WebhookOkNoBody
    \/ WebhookFails

SpecFailures == Init /\ [][NextFailures]_vars

\* Telegram messages of every kind, with one Discord text message relayed
\* beside them, so that replies meet direct pairs, relay pairs and no pair.
NextReply ==
    \/ on_messageOf(1, {"hi"}, {0})
    \/ SendOk(1)
    \/ SendNotOk(1)
    \/ SendRaises(1)
    \/ TelegramNext

SpecReply == Init /\ [][NextReply]_vars

\* Telegram text messages polled by every loop that on_ready has started.
NextReady ==
    \/ PollNext
    \/ DispatchMessage
    \/ AvatarAnswersOf({u \in TgUsers : u.id = 42}, {"none"}, {"text"})
    \/ WebhookOkWithId
    \/ WebhookFails
    \/ GetUpdatesNotOk
    \/ GetUpdatesRaises
    \/ on_ready
    \/ OtherLoopRuns

SpecReady == Init /\ [][NextReady]_vars

\* Telegram text messages whose sender dict has any shape.
NextNames ==
    \/ PollNext
    \/ DispatchMessage
    \/ AvatarAnswersOf(TgUsersAny, {"none"}, {"text"})
    \/ WebhookOkWithId
    \/ WebhookFails

SpecNames == Init /\ [][NextNames]_vars

\* ------------------------------------------------------------------- properties
\* The Discord delete event of message d reaches handle_discord_message_delete.
DeleteEventHandled(d) == on_message_delete(d) /\ msgTask[d].channel = discord_channel_id

\* The deleteMessage call of the delete handler of d is answered in this step.
DeleteAnswered(d) == delTask[d].pc = "await_delete" /\ delTask'[d].pc = "done"

\* The handler of a Telegram deletion update returns in this step.
TelegramDeleteReturns ==
    /\ tg'.pc = "done" /\ tg'.type = "deleted_message"
    /\ Len(poll'.batch) < Len(poll.batch)

\* No table mentions Telegram message m after the step.
TelegramIdGone(m) ==
    /\ m \notin DOMAIN telegram_to_discord'
    /\ m \notin DOMAIN telegram_to_webhook'
    /\ \A k \in DOMAIN discord_to_telegram' : discord_to_telegram'[k][1] # m
    /\ \A w \in DOMAIN webhook_to_telegram' : webhook_to_telegram'[w] # m

TelegramPairGone(m) ==
    /\ m \notin DOMAIN telegram_to_discord'
    /\ m \notin DOMAIN telegram_to_webhook'
    /\ m \in DOMAIN telegram_to_discord
          => telegram_to_discord[m][1] \notin DOMAIN discord_to_telegram'
    /\ m \in DOMAIN telegram_to_webhook
          => telegram_to_webhook[m] \notin DOMAIN webhook_to_telegram'

C2_DirectTablesInverse ==
    /\ \A k \in DOMAIN discord_to_telegram :
          /\ discord_to_telegram[k][1] \in DOMAIN telegram_to_discord
          /\ telegram_to_discord[discord_to_telegram[k][1]][1] = k
    /\ \A m \in DOMAIN telegram_to_discord :
          /\ telegram_to_discord[m][1] \in DOMAIN discord_to_telegram
          /\ discord_to_telegram[telegram_to_discord[m][1]][1] = m

\* One pair is stored while another was removed by a Discord deletion and a
\* Telegram deletion found its pair already gone or removed one itself.
C2_Witness ==
    /\ DOMAIN discord_to_telegram # {}
    /\ \E d \in DIds : delTask[d].answer = "ok" /\ StrId(d) \notin DOMAIN discord_to_telegram
    /\ tg.pc = "done" /\ tg.type = "deleted_message" /\ tg.message_id # 0

\* C3: every message reference takes part in at most one correlation: no
\* pseudo-id is the counterpart of two Telegram ids, the two relay tables agree
\* on every pair, and no Telegram id is a key of both telegram_to_discord and
\* telegram_to_webhook; pseudo-ids of the timestamp fallback included.
C3_OneCorrelationPerReference ==
    /\ \A m1, m2 \in DOMAIN telegram_to_webhook :
          telegram_to_webhook[m1] = telegram_to_webhook[m2] => m1 = m2
    /\ \A w \in DOMAIN webhook_to_telegram :
          /\ webhook_to_telegram[w] \in DOMAIN telegram_to_webhook
          /\ telegram_to_webhook[webhook_to_telegram[w]] = w
    /\ \A m \in DOMAIN telegram_to_webhook :
          /\ telegram_to_webhook[m] \in DOMAIN webhook_to_telegram
          /\ webhook_to_telegram[telegram_to_webhook[m]] = m
    /\ DOMAIN telegram_to_discord \cap DOMAIN telegram_to_webhook = {}

\* The new entries of table g with respect to table f.
NewKeys(f, g) == {k \in DOMAIN g : k \notin DOMAIN f \/ g[k] # f[k]}

\* The last send of the handler of Discord message d is answered in this step.
LastSendAnswered(d) == msgTask[d].pc = "await_send" /\ msgTask'[d].pc = "done"

\* The webhook post of the Telegram handler is answered in this step.
WebhookAnswered == tg.pc = "await_webhook" /\ tg'.pc = "done"

\* C4: an entry is inserted only in the step in which the send it refers to
\* reported success, and it names the id that send returned (the id Telegram
\* assigned, the id send_webhook_message handed back); a handler none of whose
\* sends was accepted inserts nothing.
C4_InsertOnlyAfterSuccess ==
    [][/\ \A k \in NewKeys(discord_to_telegram, discord_to_telegram') :
             \E d \in DIds :
                /\ k = StrId(d) /\ LastSendAnswered(d)
                /\ msgTask'[d].telegram_msg = OkMsg(tg_next_id)
                /\ tg_next_id' = tg_next_id + 1
                /\ discord_to_telegram'[k][1] = tg_next_id
       /\ \A m \in NewKeys(telegram_to_discord, telegram_to_discord') :
             \E d \in DIds :
                /\ m = tg_next_id /\ LastSendAnswered(d)
                /\ msgTask'[d].telegram_msg = OkMsg(tg_next_id)
                /\ tg_next_id' = tg_next_id + 1
                /\ telegram_to_discord'[m][1] = StrId(d)
       /\ \A m \in NewKeys(telegram_to_webhook, telegram_to_webhook') :
             /\ WebhookAnswered /\ tg'.answer \in {"id", "no_id"}
             /\ wh_next' = wh_next + 1
             /\ m = tg.message_id /\ telegram_to_webhook'[m] = tg'.discord_msg
       /\ \A w \in NewKeys(webhook_to_telegram, webhook_to_telegram') :
             /\ WebhookAnswered /\ tg'.answer \in {"id", "no_id"}
             /\ wh_next' = wh_next + 1
             /\ w = tg'.discord_msg /\ webhook_to_telegram'[w] = tg.message_id
       /\ \A d \in DIds :
             LastSendAnswered(d) /\ msgTask'[d].last_ok = 0
                => /\ discord_to_telegram' = discord_to_telegram
                   /\ telegram_to_discord' = telegram_to_discord
       /\ WebhookAnswered /\ tg'.answer = "failed"
             => /\ webhook_to_telegram' = webhook_to_telegram
                /\ telegram_to_webhook' = telegram_to_webhook]_vars

\* Both kinds of pairs are stored (the relay pair by the handler that has just
\* returned with the id of its post), and a Discord message whose sends were
\* all refused left no entry.
C4_Witness ==
    /\ DOMAIN discord_to_telegram # {}
    /\ \E d \in DIds : /\ msgTask[d].pc = "done" /\ msgTask[d].sent > 0
                        /\ msgTask[d].last_ok = 0
                        /\ StrId(d) \notin DOMAIN discord_to_telegram
    /\ tg.pc = "done" /\ tg.answer = "id"
    /\ tg.message_id \in DOMAIN telegram_to_webhook
    /\ telegram_to_webhook[tg.message_id] = tg.discord_msg

\* C5: when the webhook post of a message of the configured chat is answered
\* with status 200 or 204, with or without a body that carries an id, the
\* finished handler has stored the pair of the pseudo-id and the Telegram
\* message id in both relay tables.
C5_RelayPairAfterSuccessfulPost ==
    tg.pc = "done" /\ tg.type = "message" /\ tg.answer \in {"id", "no_id", "no_body"}
       => /\ tg.message_id \in DOMAIN telegram_to_webhook
          /\ telegram_to_webhook[tg.message_id] \in DOMAIN webhook_to_telegram
          /\ webhook_to_telegram[telegram_to_webhook[tg.message_id]] = tg.message_id

\* The outbound units of a Discord message: its text and its attachments.
Units(t) == t.attachments + (IF t.content # "" THEN 1 ELSE 0)

\* C6: the pair stored for a Discord message names the Telegram id of the last
\* send that was accepted; if any send was accepted a pair is stored, also
\* when a later send failed.
C6_LastAcceptedSendIsRecorded ==
    [][\A d \in DIds :
          LastSendAnswered(d) /\ msgTask'[d].last_ok # 0
             => /\ StrId(d) \in DOMAIN discord_to_telegram'
                /\ discord_to_telegram'[StrId(d)][1] = msgTask'[d].last_ok]_vars

\* C7: a send that fails (refused by Telegram, or the call raises) skips that
\* unit alone: when the handler ends every unit of the message was sent once.
C7_FailedUnitAloneIsSkipped ==
    [][\A d \in DIds :
          LastSendAnswered(d) => msgTask'[d].sent = Units(msgTask[d])]_vars

\* C8: a Discord delete event for a directly correlated message issues one
\* deleteMessage for the counterpart id; an ok answer removes both halves, a
\* not-ok answer or a raising call leaves both tables as they were and issues
\* no further call, so that a later delete event issues the call again.
C8_DeleteCallAndOutcome ==
    [][\A d \in DIds :
          /\ DeleteEventHandled(d) /\ StrId(d) \in DOMAIN discord_to_telegram
                => /\ delTask'[d].pc = "await_delete"
                   /\ delTask'[d].calls = delTask[d].calls + 1
                   /\ delTask'[d].telegram_msg_id = discord_to_telegram[StrId(d)][1]
          /\ DeleteAnswered(d)
                => /\ delTask'[d].calls = delTask[d].calls
                   /\ delTask'[d].answer = "ok"
                         => /\ StrId(d) \notin DOMAIN discord_to_telegram'
                            /\ delTask[d].telegram_msg_id \notin DOMAIN telegram_to_discord'
                   /\ delTask'[d].answer \in {"not_ok", "raise"}
                         => /\ discord_to_telegram' = discord_to_telegram
                            /\ telegram_to_discord' = telegram_to_discord]_vars

\* A second deleteMessage call for a message whose first one was not accepted.
C8_Witness ==
    \E d \in DIds : /\ delTask[d].pc = "await_delete"
                    /\ delTask[d].calls = 2
                    /\ discord_to_telegram[StrId(d)][1] = delTask[d].telegram_msg_id

\* C9: a Discord delete event for a message id without correlation makes no
\* outbound call, raises nothing, and leaves the four tables and the polling
\* offset unchanged.
C9_UncorrelatedDeleteIsNoOp ==
    [][\A d \in DIds :
          DeleteEventHandled(d) /\ StrId(d) \notin DOMAIN discord_to_telegram
             => /\ delTask'[d].pc = "done"
                /\ delTask'[d].calls = delTask[d].calls
                /\ ~delTask'[d].raised
                /\ discord_to_telegram' = discord_to_telegram
                /\ telegram_to_discord' = telegram_to_discord
                /\ webhook_to_telegram' = webhook_to_telegram
                /\ telegram_to_webhook' = telegram_to_webhook
                /\ telegram_offset' = telegram_offset]_vars

\* A delete event was handled for a message of the channel that was relayed
\* without any accepted send, while another message has its pair stored.
C9_Witness ==
    \E d \in DIds : /\ delTask[d].pc = "done" /\ delTask[d].calls = 0
                    /\ msgTask[d].pc = "done" /\ msgTask[d].last_ok = 0
                    /\ msgTask[d].sent > 0
                    /\ DOMAIN discord_to_telegram # {}

\* C10: a Discord message that references an earlier message which is one half
\* of a stored pair (a direct pair, or the relay pair of a webhook post) is
\* sent with reply_to_message_id equal to the counterpart's Telegram id, on
\* every send.
C10_ReplyHintFromEitherTable ==
    [][\A d \in DIds :
          msgTask'[d].pc = "await_send" /\ msgTask'[d] # msgTask[d]
             => LET ref == StrId(msgTask'[d].reference)
                    hint == msgTask'[d].call.reply_to
                IN  /\ msgTask[d].pc = "await_send" => hint = msgTask[d].call.reply_to
                    /\ msgTask[d].pc = "idle" /\ ref \in DOMAIN discord_to_telegram
                          => hint = discord_to_telegram[ref][1]
                    /\ msgTask[d].pc = "idle" /\ ref \in DOMAIN webhook_to_telegram
                          => hint = webhook_to_telegram[ref]]_vars

\* C11: a Discord message that replies to a message id without an entry in
\* discord_to_telegram raises nothing at the lookup; each of its sends carries
\* no reply_to_message_id; and when its last send is answered ok the pair of
\* the message and the answered Telegram id is stored in both tables.
C11_ReplyToUnrecordedIsUnthreaded ==
    [][\A d \in DIds :
          /\ ( /\ on_message(d)
               /\ msgTask'[d].reference # 0
               /\ StrId(msgTask'[d].reference) \notin DOMAIN discord_to_telegram )
                => /\ ~msgTask'[d].raised
                   /\ msgTask'[d].pc = "await_send"
                   /\ msgTask'[d].reply_to = 0
                   /\ msgTask'[d].call.reply_to = 0
          /\ msgTask[d].pc = "await_send" /\ msgTask'[d].pc = "await_send"
                => /\ msgTask'[d].reply_to = msgTask[d].reply_to
                   /\ msgTask'[d].call.reply_to = msgTask[d].reply_to
          /\ ( /\ LastSendAnswered(d)
               /\ msgTask[d].reference # 0 /\ msgTask[d].reply_to = 0
               /\ msgTask'[d].telegram_msg.tag = "ok" /\ ~msgTask'[d].raised )
                => /\ StrId(d) \in DOMAIN discord_to_telegram'
                   /\ discord_to_telegram'[StrId(d)][1] = msgTask'[d].telegram_msg.message_id
                   /\ msgTask'[d].telegram_msg.message_id \in DOMAIN telegram_to_discord'
                   /\ telegram_to_discord'[msgTask'[d].telegram_msg.message_id][1] = StrId(d)]_vars

\* Message 2 replies to message 1, whose only send Telegram refused: its send
\* is awaited without a reply target while no pair is stored for message 1.
C11_Witness ==
    /\ msgTask[1].pc = "done" /\ msgTask[1].telegram_msg = NotOkMsg
    /\ StrId(1) \notin DOMAIN discord_to_telegram
    /\ msgTask[2].pc = "await_send" /\ msgTask[2].reference = 1
    /\ msgTask[2].call.reply_to = 0

\* The handler of Discord message d stored a pair for it (its last send was
\* answered ok).
Recorded(d) ==
    /\ msgTask[d].pc = "done" /\ ~msgTask[d].raised
    /\ msgTask[d].telegram_msg.tag = "ok"

\* The Telegram id of the pair stored for d.
Counterpart(d) == msgTask[d].telegram_msg.message_id

\* The pair stored for d has been removed (pairs are removed by the delete
\* handlers only).
Removed(d) ==
    /\ Recorded(d)
    /\ \/ StrId(d) \notin DOMAIN discord_to_telegram
       \/ Counterpart(d) \notin DOMAIN telegram_to_discord

C13_TextNotSentTwice ==
    [][\A d \in DIds :
          /\ ( /\ msgTask'[d].pc = "await_send"
               /\ msgTask'[d].content # "" /\ msgTask'[d].attachments > 0 )
                => /\ msgTask'[d].call.op # "sendMessage"
                   /\ msgTask'[d].call.text = Caption(msgTask'[d].author, msgTask'[d].content)
          /\ ( /\ LastSendAnswered(d) /\ ~msgTask'[d].raised
               /\ msgTask[d].content # "" /\ msgTask[d].attachments > 0 )
                => msgTask'[d].sent = msgTask[d].attachments]_vars

\* C14: a Discord message written by the bot's own user, and the on_message
\* event of a message posted through the webhook, start no send to Telegram
\* and change no table: every send awaited is for a user's message of the
\* configured channel, no table entry names the bot or a webhook post as a
\* Discord message, and Telegram hands out a message id only for such a send
\* or for a Telegram user's own message.
C14_NoRelayBack ==
    [][/\ \A d \in DIds :
             /\ msgTask[d].pc = "await_send"
                   => /\ msgTask[d].author # BotUser
                      /\ msgTask[d].channel = discord_channel_id
             /\ on_message(d) /\ msgTask'[d].pc = "ignored"
                   => UNCHANGED <<tables, tg_next_id>>
       /\ \A k \in 1..wh_next :
             /\ on_message_webhook(k)
                   => /\ <<k, "ignored">> \in webhook_seen'
                      /\ UNCHANGED <<tables, msgTask, tg_next_id>>
             /\ <<k, "await_send">> \notin webhook_seen
             /\ StrId(MaxDiscordMsg + k) \notin DOMAIN discord_to_telegram
       /\ \A key \in DOMAIN discord_to_telegram :
             discord_to_telegram[key][3] # BotUser.id
       /\ tg_next_id' # tg_next_id
             => \/ \E d \in DIds : SendOk(d) /\ msgTask[d].author # BotUser
                \/ DispatchMessage]_vars

\* A message the bot wrote in the configured channel was ignored, a Telegram
\* message was posted through the webhook and the event of that post was
\* dropped; Telegram has handed out the id of the user's message only.
C14_Witness ==
    /\ msgTask[1].pc = "ignored" /\ msgTask[1].channel = discord_channel_id
    /\ wh_next = 1 /\ <<1, "ignored">> \in webhook_seen
    /\ DOMAIN webhook_to_telegram # {}
    /\ DOMAIN discord_to_telegram = {}
    /\ tg_next_id = 2

\* C15: no step of the polling loop or of a handler lowers telegram_offset,
\* whatever getUpdates answers (a batch, an empty batch, ok: false, an
\* error) and however the handlers of the updates end.
C15_CursorNeverDecreases ==
    [][telegram_offset' >= telegram_offset]_vars

\* The last element of a non-empty sequence.
Last(s) == s[Len(s)]

\* C16: a fetched batch is in ascending order of update_id, its highest id
\* stays the last element of what is left of it while its updates are
\* handled, and the step that ends the cycle (the handler of the last update
\* returns, however it fared) leaves telegram_offset at that id plus one.
C16_CursorOnePastHighest ==
    [][/\ GetUpdatesOk
             => \A i, j \in 1..Len(poll'.batch) :
                   i < j => poll'.batch[i] < poll'.batch[j]
       /\ Len(poll.batch) > 0 /\ Len(poll'.batch) > 0
             => Last(poll'.batch) = Last(poll.batch)
       /\ poll.pc \in {"dispatch", "handling"} /\ poll'.pc = "sleep"
             => /\ Len(poll.batch) = 1
                /\ telegram_offset' = Last(poll.batch) + 1]_vars

\* One fetch (the only one so far, made with offset 0) returned updates 1
\* and 2; the webhook post for update 2 failed, and the cycle ended with the
\* cursor at 3.
C16_Witness ==
    /\ poll.pc = "sleep" /\ tg_acked = 0 /\ telegram_offset = 3
    /\ tg.pc = "done" /\ tg.update_id = 2 /\ tg.answer = "failed"

\* C17: telegram_offset moves past an update only in a step in which that
\* update's handler has returned; the offset Telegram has been sent never
\* lies beyond an update whose handler has not returned; so every update
\* whose handler has not returned, also one that was being handled when the
\* process stopped, is in the batch of the next successful getUpdates.
C17_AckOnlyAfterDispatch ==
    [][/\ \A u \in 1..tg_last_update :
             /\ telegram_offset <= u /\ u < telegram_offset' => u \in handled'
             /\ u < tg_acked => u \in handled
             /\ u < tg_acked' => u \in handled'
             /\ GetUpdatesOk /\ u \notin handled
                   => \E i \in 1..Len(poll'.batch) : poll'.batch[i] = u]_vars

\* The process stopped while update 1 was being handled (its message had been
\* read: Telegram message id 1 is taken); after the restart the update is
\* the head of the fetched batch again, still unhandled.
C17_Witness ==
    /\ crashes = 1 /\ tg_next_id = 2
    /\ poll.pc = "dispatch" /\ Head(poll.batch) = 1
    /\ 1 \notin handled /\ telegram_offset = 0

\* C18: the polling loop does not end: a getUpdates call that raises takes
\* the loop to the long sleep, from the long sleep it always comes back to
\* the fetch, and whatever fetches and handlers do the loop fetches again
\* and again.
C18_PollLoopNeverEnds ==
    /\ [][GetUpdatesRaises => poll.pc = "fetch" /\ poll'.pc = "backoff"]_vars
    /\ (poll.pc = "backoff") ~> (poll.pc = "fetch")
    /\ []<>(poll.pc = "fetch")

\* Both updates have been handled and a later getUpdates call raised: the
\* loop is in its long sleep.
C18_Witness ==
    /\ poll.pc = "backoff" /\ handled = {1, 2}

\* C19: when the handler of a media update (photo, video, document, voice,
\* animation, sticker) has returned, however the download and the post
\* ended, no temporary file made for that update is left on disk.
C19_TempFileReleased ==
    tg.pc = "done" /\ tg.kind \in MediaKinds \cup {"sticker"}
       => tg.update_id \notin temp_files

\* C20: the handler of a Telegram deletion update for message id m attempts
\* the deletion of the counterpart Discord message when telegram_to_discord
\* holds m; removes the relay pair of m from both relay tables without a
\* call when telegram_to_webhook holds m; and otherwise makes no call and
\* changes no table.
C20_TelegramDeleteByCorrelation ==
    [][DispatchDelete /\ tg'.message_id # 0
          => LET m == tg'.message_id
             IN  /\ m \in DOMAIN telegram_to_discord
                       => /\ tg'.webhook_deletes = 1
                          /\ tg'.discord_msg_id = telegram_to_discord[m][1]
                 /\ m \notin DOMAIN telegram_to_discord /\ m \in DOMAIN telegram_to_webhook
                       => /\ tg'.webhook_deletes = 0
                          /\ m \notin DOMAIN telegram_to_webhook'
                          /\ telegram_to_webhook[m] \notin DOMAIN webhook_to_telegram'
                          /\ UNCHANGED direct
                 /\ m \notin DOMAIN telegram_to_discord /\ m \notin DOMAIN telegram_to_webhook
                       => /\ tg'.webhook_deletes = 0
                          /\ UNCHANGED tables]_vars

\* The points at which handle_telegram_message waits for an outbound call.
TgAwaits == {"await_avatar", "await_download", "await_webhook", "await_webhook_delete"}

\* C21: whatever an outbound call answers (refused, failed, raised), the
\* handler that made it goes on to its next call or returns; no other
\* handler is touched; and for a Telegram handler nothing reaches the
\* polling loop's except: the loop never takes the long sleep because of a
\* handler, and when the handler has returned the loop has moved past the
\* update and goes on with the batch.
C21_FailuresStayInHandlers ==
    [][/\ \A d \in DIds :
             /\ msgTask[d].pc = "await_send" /\ msgTask'[d] # msgTask[d]
                   => /\ msgTask'[d].pc \in {"await_send", "done"}
                      /\ \A e \in DIds \ {d} : msgTask'[e] = msgTask[e]
                      /\ UNCHANGED <<delTask, poll, tg, cursor>>
             /\ delTask[d].pc = "await_delete" /\ delTask'[d] # delTask[d]
                   => /\ delTask'[d].pc = "done"
                      /\ \A e \in DIds \ {d} : delTask'[e] = delTask[e]
                      /\ UNCHANGED <<msgTask, poll, tg, cursor>>
       /\ tg.pc \in TgAwaits /\ tg' # tg
             => /\ tg'.pc \in TgAwaits \cup {"done"}
                /\ poll'.pc \in {"handling", "dispatch", "sleep"}
                /\ tg'.pc # "done" => UNCHANGED <<poll, cursor>>
                /\ tg'.pc = "done"
                      => /\ telegram_offset' = tg.update_id + 1
                         /\ tg.update_id \in handled'
                         /\ poll'.batch = Tail(poll.batch)
                /\ UNCHANGED <<msgTask, delTask>>]_vars

\* The send of message 1 raised, message 2 was relayed afterwards and the
\* deleteMessage call for it raised; the download of a photo raised part-way
\* and the webhook post failed, and the loop has moved past that update.
C21_Witness ==
    /\ msgTask[1].pc = "done" /\ msgTask[1].raised
    /\ StrId(2) \in DOMAIN discord_to_telegram
    /\ delTask[2].pc = "done" /\ delTask[2].answer = "raise"
    /\ tg.pc = "done" /\ tg.kind = "photo" /\ tg.answer = "failed"
    /\ tg.update_id \in temp_files
    /\ telegram_offset = tg.update_id + 1

\* C22: the handler of a 'message' update whose chat is not the configured
\* chat returns in the step that dispatched it: it waits for no avatar,
\* download or webhook call, has made no post, and no table, webhook post or
\* temporary file has changed.
C22_OtherChatDiscarded ==
    [][/\ DispatchMessage /\ tg'.chat # telegram_chat_id
             => /\ tg'.pc = "done" /\ tg'.posts = 0
                /\ UNCHANGED <<tables, wh_next, temp_files>>
       /\ tg.pc \in TgAwaits /\ tg.type = "message"
             => tg.chat = telegram_chat_id]_vars

\* A message of another chat was dispatched and dropped; the loop has moved
\* past it and nothing was posted.
C22_Witness ==
    /\ tg.pc = "done" /\ tg.type = "message" /\ tg.chat = OtherChat
    /\ telegram_offset = tg.update_id + 1
    /\ wh_next = 0 /\ DOMAIN telegram_to_webhook = {}

\* s starts with p.
StartsWith(s, p) == Len(p) <= Len(s) /\ SubSeq(s, 1, Len(p)) = p

\* C23: when the handler of a Telegram message that replies to message id m
\* has its avatar, the reply prefix is the line naming the author stored in
\* telegram_to_discord[m] if that table holds m, else the line "Replying to
\* previous message" if telegram_to_webhook holds m, else empty; and the
\* content of the webhook post, for every kind of message, starts with that
\* prefix.
C23_ReplyPrefix ==
    [][/\ AvatarAnswers /\ tg'.pc # "done"
             => LET m == tg.replied_msg_id
                IN  /\ m \in DOMAIN telegram_to_discord
                          => tg'.reply_text =
                                <<"> ", SpeechBalloon, " Replying to **",
                                  telegram_to_discord[m][2], "**\n\n">>
                    /\ m \notin DOMAIN telegram_to_discord /\ m \in DOMAIN telegram_to_webhook
                          => tg'.reply_text =
                                <<"> ", SpeechBalloon, " Replying to previous message\n\n">>
                    /\ m \notin DOMAIN telegram_to_discord /\ m \notin DOMAIN telegram_to_webhook
                          => tg'.reply_text = <<>>
       /\ tg.pc = "await_download" /\ tg'.pc # "done"
             => tg'.reply_text = tg.reply_text
       /\ tg.pc \in {"await_avatar", "await_download"} /\ tg'.pc = "await_webhook"
             => StartsWith(tg'.content, tg'.reply_text)]_vars

\* A voice message that replies to the Telegram copy of Ann's Discord message
\* is being posted with the line naming Ann before the audio marker.
C23_Witness ==
    /\ tg.pc = "await_webhook" /\ tg.kind = "voice"
    /\ tg.replied_msg_id \in DOMAIN telegram_to_discord
    /\ tg.content = <<"> ", SpeechBalloon, " Replying to **", "Ann", "**\n\n", AudioMarker>>

\* C24: the handler of a sticker message of the configured chat has made
\* exactly one webhook post when it returns: a post without a file when the
\* sticker is animated or a video and no thumbnail was downloaded, a post
\* with the file whenever a file was downloaded.
C24_StickerAlwaysPosted ==
    [][/\ tg.kind = "sticker" /\ tg.pc \in TgAwaits /\ tg'.pc = "done"
             => tg'.posts = 1
       /\ tg.kind = "sticker" /\ tg.pc = "await_download" /\ tg'.pc = "await_webhook"
             => tg'.file = (tg'.file_path # 0)
       /\ tg'.kind = "sticker" /\ tg.pc = "await_avatar" /\ tg'.pc = "await_webhook"
             => /\ ~tg'.file
                /\ tg'.content = Cat(tg'.reply_text, StickerMarker)]_vars

\* C25: whatever getUserProfilePhotos and getFile answer, the avatar URL the
\* handler goes on with is not empty, and it is either the file URL of the
\* photo or the placeholder URL made of the sender's numeric id.
C25_AvatarNeverFails ==
    [][AvatarAnswers /\ tg'.pc # "done"
          => /\ tg'.avatar_url # <<>>
             /\ \/ tg'.avatar_url = FileUrl("ok")
                \/ \E user \in TgUsers : /\ DisplayName(user) = tg'.username
                                         /\ tg'.avatar_url = DefaultAvatar(user.id)]_vars

\* C26: an attachment whose content type starts with image/ is sent with
\* sendPhoto, one that starts with video/ with sendVideo, any other and one
\* without a content type with sendDocument; the send of an attachment is
\* one call of the method its type selects; and when the handler ends every
\* attachment of the message has been sent.
C26_AttachmentClassified ==
    [][/\ SendOp(<<"image", "png">>) = "sendPhoto"
       /\ SendOp(<<"video", "mp4">>) = "sendVideo"
       /\ SendOp(<<"application", "pdf">>) = "sendDocument"
       /\ SendOp(NoContentType) = "sendDocument"
       /\ \A d \in DIds :
             /\ msgTask'[d].pc = "await_send" /\ msgTask'[d].i = msgTask[d].i + 1
                   => /\ \E ct \in ContentTypes : msgTask'[d].call.op = SendOp(ct)
                      /\ msgTask'[d].call.unit = msgTask'[d].i
                      /\ msgTask'[d].sent = msgTask[d].sent + 1
             /\ LastSendAnswered(d) => msgTask[d].i = msgTask[d].attachments]_vars

\* C27: a Discord message of the configured channel with a text and no
\* attachment is sent with one sendMessage whose text is the speech balloon,
\* " <b>", the author's display name, "</b>: " and the content; the handler
\* ends when that send is answered; and when Telegram accepts it both tables
\* hold the pair of the Discord id and the message id Telegram returned.
C27_TextOnlyMessage ==
    [][\A d \in DIds :
          /\ on_message(d) /\ msgTask'[d].pc = "await_send" /\ msgTask'[d].attachments = 0
                => /\ msgTask'[d].content # ""
                   /\ msgTask'[d].sent = 1
                   /\ msgTask'[d].call.op = "sendMessage"
                   /\ msgTask'[d].call.text =
                         <<SpeechBalloon, " <b>", msgTask'[d].author.display_name,
                           "</b>: ", msgTask'[d].content>>
          /\ msgTask[d].pc = "await_send" /\ msgTask[d].attachments = 0
             /\ msgTask'[d] # msgTask[d]
                => /\ msgTask'[d].pc = "done" /\ msgTask'[d].sent = 1
                   /\ SendOk(d)
                         => /\ StrId(d) \in DOMAIN discord_to_telegram'
                            /\ discord_to_telegram'[StrId(d)][1] = tg_next_id
                            /\ tg_next_id \in DOMAIN telegram_to_discord'
                            /\ telegram_to_discord'[tg_next_id][1] = StrId(d)]_vars

\* Ann's message "hi" was sent once and accepted as Telegram message 1, and
\* the pair is stored both ways; Bob's message "hi" is being sent.
C27_Witness ==
    /\ msgTask[1].pc = "done" /\ msgTask[1].sent = 1
    /\ StrId(1) \in DOMAIN discord_to_telegram
    /\ discord_to_telegram[StrId(1)] = <<1, "Ann", "u_ann">>
    /\ 1 \in DOMAIN telegram_to_discord
    /\ telegram_to_discord[1] = <<StrId(1), "Ann", "u_ann">>
    /\ msgTask[2].pc = "await_send" /\ msgTask[2].attachments = 0
    /\ msgTask[2].call.text = <<SpeechBalloon, " <b>", "Bob", "</b>: ", "hi">>

\* C28: the handler of a Discord message of the configured channel that is
\* not ignored and has no attachment makes one sendMessage call, also when
\* the content is empty.  (A handler that has returned in the step of its
\* on_message event had neither content nor attachment.)
C28_NoAttachmentOneTextSend ==
    [][\A d \in DIds :
          ( /\ on_message(d) /\ msgTask'[d].pc # "ignored"
            /\ msgTask'[d].pc = "done" \/ msgTask'[d].attachments = 0 )
             => /\ msgTask'[d].pc = "await_send"
                /\ msgTask'[d].call.op = "sendMessage"
                /\ msgTask'[d].sent = 1]_vars

\* The key is in the dict and its value is not empty.
Given(value) == value # Absent /\ value # ""

\* C29: the username of the webhook post is the sender's username when it is
\* given, else the first_name when it is given, else "User"; it is never
\* empty, whichever of the two keys are absent, empty or set.
C29_DisplayNameNeverEmpty ==
    tg.pc = "await_webhook"
       => /\ tg.username # ""
          /\ \E user \in TgUsersAny :
                tg.username = IF Given(user.username) THEN user.username
                              ELSE IF Given(user.first_name) THEN user.first_name
                              ELSE "User"

\* Update u is being handled by a polling task that is put aside.
InOtherLoop(u) ==
    \E i \in 1..Len(polling_tasks) :
        /\ polling_tasks[i].poll.pc = "handling"
        /\ polling_tasks[i].tg.update_id = u

\* C30: however often the Discord client reports ready there is one polling
\* loop only; an update that a loop hands to its handler has not been handed
\* to a handler by another loop, before or at the same time; and no step
\* lowers telegram_offset.
C30_OnePollLoop ==
    [][/\ Len(polling_tasks') = 0
       /\ DispatchMessage
             => Head(poll.batch) \notin handled /\ ~InOtherLoop(Head(poll.batch))
       /\ telegram_offset' >= telegram_offset]_vars

\* C31: when the new-message handler and the delete handler of Discord message
\* d have both returned, in whatever order their steps ran, and Telegram
\* accepted every call they made, neither table holds an entry for d and a
\* deleteMessage call was made for the copy that was recorded.
C31_DeleteDuringSend ==
    \A d \in DIds :
        ( /\ msgTask[d].pc = "done" /\ msgTask[d].last_ok # 0
          /\ msgTask[d].not_ok = 0 /\ ~msgTask[d].raised
          /\ delTask[d].pc = "done" /\ delTask[d].answer \in {"none", "ok"}
          /\ ~delTask[d].raised )
           => /\ StrId(d) \notin DOMAIN discord_to_telegram
              /\ \A m \in DOMAIN telegram_to_discord : telegram_to_discord[m][1] # StrId(d)
              /\ delTask[d].calls >= 1

\* C32: a Discord delete handler whose pair was removed by a Telegram deletion
\* while it awaited deleteMessage returns normally and changes no table, and
\* neither half of its pair is stored; a Telegram delete handler returns
\* normally, the loop goes on, and neither half of the pair it found is
\* stored, also when the Discord handler removed the pair first; after every
\* step no entry of a direct table is without its counterpart.
C32_ConcurrentDeletes ==
    [][/\ \A d \in DIds :
             ( /\ delTask[d].pc = "await_delete" /\ delTask'[d] # delTask[d]
               /\ StrId(d) \notin DOMAIN discord_to_telegram )
                => /\ delTask'[d].pc = "done"
                   /\ UNCHANGED <<tables, poll, tg>>
                   /\ delTask[d].telegram_msg_id \notin DOMAIN telegram_to_discord'
       /\ \A d \in DIds :
             DeleteAnswered(d) /\ delTask'[d].answer = "ok"
                => /\ StrId(d) \notin DOMAIN discord_to_telegram'
                   /\ delTask[d].telegram_msg_id \notin DOMAIN telegram_to_discord'
       /\ tg.pc = "await_webhook_delete" /\ tg' # tg
             => /\ tg'.pc = "done" /\ poll'.pc \in {"dispatch", "sleep"}
                /\ tg.message_id \notin DOMAIN telegram_to_discord'
                /\ tg.discord_msg_id \notin DOMAIN discord_to_telegram'
                /\ UNCHANGED delTask
       /\ \A k \in DOMAIN discord_to_telegram' :
             /\ discord_to_telegram'[k][1] \in DOMAIN telegram_to_discord'
             /\ telegram_to_discord'[discord_to_telegram'[k][1]][1] = k
       /\ \A m \in DOMAIN telegram_to_discord' :
             /\ telegram_to_discord'[m][1] \in DOMAIN discord_to_telegram'
             /\ discord_to_telegram'[telegram_to_discord'[m][1]][1] = m]_vars

\* The Telegram deletion of message 1's copy removed the pair while the
\* Discord delete handler of message 1 awaited deleteMessage; Telegram then
\* accepted the call and the handler's first del found no key.
C32_Witness ==
    /\ delTask[1].pc = "done" /\ delTask[1].answer = "ok" /\ delTask[1].raised
    /\ tg.pc = "done" /\ tg.type = "deleted_message" /\ tg.webhook_deletes = 1
    /\ tg.message_id = msgTask[1].last_ok
    /\ StrId(1) \notin DOMAIN discord_to_telegram
    /\ tg.message_id \notin DOMAIN telegram_to_discord

\* C33: the handler of a deletion update of another chat than the configured
\* one returns at once: it changes no table and requests no deletion of a
\* Discord message, whatever message id the update names.
C33_OtherChatDeleteIgnored ==
    [][DispatchDelete /\ tg'.chat # telegram_chat_id
          => /\ UNCHANGED tables
             /\ tg'.pc = "done" /\ tg'.webhook_deletes = 0]_vars

\* C34: the handler of a Telegram deletion update that names a message with a
\* direct pair leaves neither half of the pair in the store when it returns:
\* when it returns at once because the channel or the webhook is not
\* resolvable, and when the HTTP DELETE of the Discord message answered 204,
\* answered another status or raised.
C34_TelegramDeleteAlwaysRemoves ==
    [][/\ ( /\ DispatchDelete /\ tg'.pc = "done"
            /\ tg'.message_id \in DOMAIN telegram_to_discord )
             => /\ tg'.message_id \notin DOMAIN telegram_to_discord'
                /\ telegram_to_discord[tg'.message_id][1]
                      \notin DOMAIN discord_to_telegram'
       /\ WebhookDeleteAnswers
             => /\ tg'.pc = "done" /\ tg'.answer \in {"204", "status", "raise"}
                /\ tg.message_id \notin DOMAIN telegram_to_discord'
                /\ tg.discord_msg_id \notin DOMAIN discord_to_telegram']_vars

\* The HTTP DELETE for the Discord message of the pair answered with a status
\* other than 204, and the pair of message 1 is gone.
C34_Witness ==
    /\ tg.pc = "done" /\ tg.type = "deleted_message"
    /\ tg.webhook_deletes = 1 /\ tg.answer = "status"
    /\ msgTask[1].pc = "done" /\ tg.message_id = msgTask[1].last_ok
    /\ delTask[1].pc = "idle"
    /\ StrId(1) \notin DOMAIN discord_to_telegram
    /\ tg.message_id \notin DOMAIN telegram_to_discord

\* C35: the loop hands an update to its handler only when no handler is in
\* flight; the update is the head of what is left of the batch, which is its
\* lowest id; every update before it has been handled and, unless it is the
\* very first update, telegram_offset stands at its id, one past the update
\* before it; while a handler is awaited the loop stands at that update and
\* neither the batch nor the cursor changes; and getUpdates is called only
\* when no handler is in flight and nothing is left of the batch.
C35_OneDispatchAtATime ==
    [][/\ (DispatchMessage \/ DispatchDelete \/ DispatchOther)
             => /\ tg.pc \in {"idle", "done"}
                /\ tg'.update_id = Head(poll.batch)
                /\ \A i \in 2..Len(poll.batch) : poll.batch[i] > Head(poll.batch)
                /\ \A u \in 1..(Head(poll.batch) - 1) : u \in handled
                /\ Head(poll.batch) > 1 => telegram_offset = Head(poll.batch)
       /\ (GetUpdatesOk \/ GetUpdatesNotOk \/ GetUpdatesRaises)
             => tg.pc \in {"idle", "done"} /\ poll.batch = <<>>
       /\ tg.pc \in TgAwaits
             => poll.pc = "handling" /\ tg.update_id = Head(poll.batch)
       /\ tg.pc \in TgAwaits /\ tg'.pc \in TgAwaits
             => UNCHANGED <<poll, cursor>>]_vars

\* Updates 1 and 2 came in one batch; the handler of update 1 has returned,
\* the cursor stands at 2 and the handler of update 2 awaits its webhook post.
C35_Witness ==
    /\ tg_acked = 0 /\ handled = {1} /\ telegram_offset = 2
    /\ poll.pc = "handling" /\ poll.batch = <<2>>
    /\ tg.pc = "await_webhook" /\ tg.update_id = 2


\* C36: a get_updates call that raises or answers without ok dispatches no
\* update and leaves telegram_offset and the four tables unchanged, and the
\* loop's next call carries the same telegram_offset: from the failed call to
\* the next call of that loop nothing is dispatched by it and telegram_offset
\* keeps its value.
C36_FailedFetchChangesNothing ==
    [][ /\ (GetUpdatesNotOk \/ GetUpdatesRaises)
            => /\ UNCHANGED <<tables, cursor, tg>>
               /\ poll'.pc \in {"sleep", "backoff"}
               /\ poll'.batch = <<>>
        /\ (poll.failed /\ poll.pc \in {"sleep", "backoff"} /\ poll' # poll /\ ~OtherLoopRuns)
            => /\ poll'.pc = "fetch"
               /\ poll'.batch = <<>>
        /\ (poll.failed \/ \E i \in 1..Len(polling_tasks) : polling_tasks[i].poll.failed)
            => telegram_offset' = telegram_offset ]_vars


\* C37: a message of the configured chat that is none of text, photo, video,
\* document, voice, animation or sticker is not posted to the webhook and no
\* pair is recorded for it, and telegram_offset moves to its update_id + 1:
\* once the avatar is known the handler returns, the tables and the webhook's
\* message counter stay as they are, and afterwards the message is in no table.
C37_UnknownContentNotRelayed ==
    /\ [][ (AvatarAnswers /\ tg'.kind = "other")
              => /\ tg.chat = telegram_chat_id /\ tg.type = "message"
                 /\ tg'.pc = "done"
                 /\ tg'.posts = 0
                 /\ tg'.discord_msg = NoId
                 /\ UNCHANGED <<tables, wh_next, temp_files>>
                 /\ telegram_offset' = tg.update_id + 1
                 /\ tg.update_id \in handled' ]_vars
    /\ [] ( ( /\ tg.type = "message" /\ tg.chat = telegram_chat_id
              /\ tg.kind = "other" /\ tg.pc = "done" )
            => /\ tg.posts = 0
               /\ tg.message_id \notin DOMAIN telegram_to_webhook
               /\ \A w \in DOMAIN webhook_to_telegram : webhook_to_telegram[w] # tg.message_id
               /\ telegram_offset = tg.update_id + 1 )

\* The handler of update 2, a message of the configured chat with an unknown
\* content, has returned: nothing was posted and the cursor is 3.
C37_Witness ==
    /\ tg.pc = "done" /\ tg.type = "message" /\ tg.chat = telegram_chat_id
    /\ tg.kind = "other" /\ tg.message_id # 0 /\ tg.update_id = 2
    /\ tg.posts = 0 /\ telegram_offset = 3
    /\ tg.message_id \notin DOMAIN telegram_to_webhook


\* C38: the on_message and on_message_delete events of a message of another
\* channel than discord_channel_id lead to no request to Telegram and leave
\* the four tables unchanged, whatever the tables hold: the message is ignored,
\* its delete event returns without a deleteMessage call, and its id never
\* enters discord_to_telegram or telegram_to_discord.
C38_OtherChannelIgnored ==
    /\ [][ \A d \in DIds :
             /\ ( /\ msgTask[d].pc = "idle" /\ msgTask'[d].pc # "idle"
                  /\ msgTask'[d].channel # discord_channel_id )
                 => /\ msgTask'[d].pc = "ignored"
                    /\ msgTask'[d].sent = 0
                    /\ msgTask'[d].call = NoCall
                    /\ delTask'[d] = delTask[d]
                    /\ UNCHANGED <<tables, tg_next_id>>
             /\ ( on_message_delete(d) /\ msgTask[d].channel # discord_channel_id )
                 => /\ delTask'[d].pc = "done"
                    /\ delTask'[d].calls = delTask[d].calls
                    /\ UNCHANGED <<tables, msgTask, tg_next_id>> ]_vars
    /\ [] ( \A d \in DIds :
              msgTask[d].channel # discord_channel_id
                 => /\ msgTask[d].pc = "ignored"
                    /\ msgTask[d].sent = 0
                    /\ delTask[d].pc \in {"idle", "done"}
                    /\ delTask[d].calls = 0
                    /\ StrId(d) \notin DOMAIN discord_to_telegram
                    /\ \A m \in DOMAIN telegram_to_discord :
                           telegram_to_discord[m][1] # StrId(d) )

\* Message 1 was written in another channel and then deleted, message 2 was
\* relayed and its pair is stored: no request was made for message 1.
C38_Witness ==
    /\ msgTask[1].pc = "ignored" /\ msgTask[1].channel = OtherChannel
    /\ delTask[1].pc = "done" /\ delTask[1].calls = 0
    /\ StrId(2) \in DOMAIN discord_to_telegram
    /\ StrId(1) \notin DOMAIN discord_to_telegram

====
